---------------------------- MODULE Spec2Model ----------------------------
(***************************************************************************)
(* A model of the software rendering pipeline of Space_travel: the camera  *)
(* (camera.rs), the triangle rasterizer (triangle.rs), the fragment stage  *)
(* of render (main.rs, shaders.rs) and the framebuffer it writes to.       *)
(*                                                                         *)
(* Numbers.  The program computes in f32.  The model computes in fixed     *)
(* point over the integers:                                                *)
(*   - angles, unit vectors, trigonometric values and light intensities    *)
(*     are integers in units of 1/SCALE (SCALE = 1000);                    *)
(*   - world lengths (camera position, target, distance, velocity) are     *)
(*     integers in units of 1/LSCALE of a world unit (LSCALE = 100);       *)
(*   - times are integers in milliseconds (0.016 s = 16);                  *)
(*   - screen coordinates are integers in units of 1/SUB of a pixel        *)
(*     (SUB = 2), so that a pixel centre x + 0.5 is representable.         *)
(***************************************************************************)
EXTENDS Integers, Sequences, FiniteSets, TLC

VARIABLES
    camera,      \* the Camera struct (camera.rs:4-18), a record of its fields
    pc,          \* "running", or "panicked" after an index out of bounds
    lastOp,      \* the operation that produced the current state
    lastRet,     \* what that operation returned ("none" when it returns nothing)
    nops,        \* the number of operations performed so far
    draw,        \* the arguments of the last triangle_with_uniforms call
    fragments,   \* the Vec<Fragment> that call returned
    framebuffer, \* the Framebuffer: its colour and depth buffers, current colour
    pointLog,    \* the calls of Framebuffer::point since the last clear, in order
    nfb,         \* the number of framebuffer operations performed so far
    shaded,      \* the last vertex_shader call: its arguments and what it computed
    front,       \* the last vertex array taken through the first stages of render
    game         \* the locals of main across the frames of its loop

camVars == <<camera, pc, lastOp, lastRet, nops>>
rasVars == <<draw, fragments>>
fbVars == <<framebuffer, pointLog, nfb>>
vsVars == <<shaded, front>>
loopVars == <<game>>
vars == <<camVars, rasVars, fbVars, vsVars, loopVars>>

---------------------------------------------------------------------------
(* Bounds of the model.                                                    *)

\* The longest run of camera operations explored.
MaxCamOps == 4
\* The screen triangles rasterized have their vertices on a grid of
\* (RasterGrid + 1) x (RasterGrid + 1) points.
RasterGrid == 1
\* The longest run of framebuffer operations explored.
MaxFbOps == 3
\* The number of frames of the main loop taken statement by statement.
MaxSteppedFrames == 2
\* The number of frames of the main loop taken frame by frame: two seconds
\* of simulated time and a little more.
MaxFrames == 128

---------------------------------------------------------------------------
(* Fixed-point arithmetic.                                                 *)

SCALE == 1000
LSCALE == 100

Abs(n) == IF n < 0 THEN -n ELSE n
Min(a, b) == IF a < b THEN a ELSE b
Max(a, b) == IF a > b THEN a ELSE b

\* f32::clamp(lo, hi)
Clamp(v, lo, hi) == IF v < lo THEN lo ELSE IF v > hi THEN hi ELSE v

\* n / d rounded to the nearest integer, symmetric about 0 (d > 0).
RDiv(n, d) == IF n >= 0 THEN (n + d \div 2) \div d ELSE -((-n + d \div 2) \div d)

\* The product of a value and a 1/SCALE fixed-point factor.
MulS(a, b) == RDiv(a * b, SCALE)

RECURSIVE SqrtIter(_, _, _)
SqrtIter(n, lo, hi) ==
    IF lo >= hi THEN lo
    ELSE LET mid == (lo + hi + 1) \div 2
         IN  IF mid * mid <= n THEN SqrtIter(n, mid, hi) ELSE SqrtIter(n, lo, mid - 1)

\* floor(sqrt(n)) for 0 <= n < 2^31
ISqrt(n) == SqrtIter(n, 0, 46340)

\* std::f32::consts::PI in units of 1/SCALE radians
PI_M == 3142
HALF_PI_M == PI_M \div 2

\* sin of an angle a (1/SCALE radians), in units of 1/SCALE: the angle is
\* reduced to [-PI/2, PI/2] and the series x - x^3/3! + x^5/5! - x^7/7! is
\* evaluated in Horner form.
SinReduced(x) ==
    LET x2 == (x * x) \div SCALE
        h3 == SCALE - x2 \div 42
        h2 == SCALE - (x2 * h3) \div (20 * SCALE)
        h1 == SCALE - (x2 * h2) \div (6 * SCALE)
    IN  (x * h1) \div SCALE

SinHalf(r) == \* 0 <= r <= PI
    IF r > HALF_PI_M THEN SinReduced(PI_M - r) ELSE SinReduced(r)

Sin(a) ==
    LET r == a % (2 * PI_M)
    IN  IF r > PI_M THEN -SinHalf(2 * PI_M - r) ELSE SinHalf(r)

Cos(a) == Sin(a + HALF_PI_M)

---------------------------------------------------------------------------
(* Vec3 (nalgebra_glm): triples of integers.                               *)

\* The vector whose three components are NaN: the program's normalize(v) of
\* the zero vector divides 0.0 by 0.0 in every component.  Every Vec3
\* operation on it yields it again, and it differs from every vector,
\* itself included in the program (here it is one value, equal to itself).
NaNVec == <<>>
IsNaN(v) == v = NaNVec

Vec3(x, y, z) == <<x, y, z>>
VAdd(a, b) ==
    IF IsNaN(a) \/ IsNaN(b) THEN NaNVec
    ELSE <<a[1] + b[1], a[2] + b[2], a[3] + b[3]>>
VSub(a, b) ==
    IF IsNaN(a) \/ IsNaN(b) THEN NaNVec
    ELSE <<a[1] - b[1], a[2] - b[2], a[3] - b[3]>>
\* v * s for a 1/SCALE fixed-point scalar factor
VMulS(v, s) ==
    IF IsNaN(v) THEN NaNVec ELSE <<MulS(v[1], s), MulS(v[2], s), MulS(v[3], s)>>
Dot(a, b) == a[1] * b[1] + a[2] * b[2] + a[3] * b[3]
\* cross product of two 1/SCALE unit-scale vectors, in units of 1/SCALE
Cross(a, b) ==
    IF IsNaN(a) \/ IsNaN(b) THEN NaNVec
    ELSE <<RDiv(a[2] * b[3] - a[3] * b[2], SCALE),
           RDiv(a[3] * b[1] - a[1] * b[3], SCALE),
           RDiv(a[1] * b[2] - a[2] * b[1], SCALE)>>

\* length(v) of a vector that is not NaN.  Large vectors are scaled down
\* before squaring so that the sum of squares stays within the integers of
\* the checker.
Length(v) ==
    LET m == Max(Abs(v[1]), Max(Abs(v[2]), Abs(v[3])))
        k == m \div 20000 + 1
        w == <<v[1] \div k, v[2] \div k, v[3] \div k>>
    IN  k * ISqrt(Dot(w, w))

\* normalize(v) = v / |v|, a vector in units of 1/SCALE; NaN for the zero
\* vector.  A short vector is first scaled up by a whole factor, which keeps
\* its direction, so that its length is not lost in the rounding of the
\* square root.
Normalize(v) ==
    IF IsNaN(v) THEN NaNVec
    ELSE LET m == Max(Abs(v[1]), Max(Abs(v[2]), Abs(v[3])))
         IN  IF m = 0 THEN NaNVec
             ELSE LET f == Max(1, 20000 \div m)
                      w == <<f * v[1], f * v[2], f * v[3]>>
                      len == Length(w)
                  IN  <<RDiv(w[1] * SCALE, len), RDiv(w[2] * SCALE, len),
                        RDiv(w[3] * SCALE, len)>>

\* rotate_vec3(v, angle, axis): v rotated by angle about the unit axis
\* (Rodrigues' formula); v and axis in units of 1/SCALE.
RotateVec3(v, angle, axis) ==
    IF IsNaN(v) \/ IsNaN(axis) THEN NaNVec
    ELSE LET c  == Cos(angle)
             s  == Sin(angle)
             kv == RDiv(Dot(axis, v), SCALE)
             kxv == Cross(axis, v)
         IN  VAdd(VAdd(VMulS(v, c), VMulS(kxv, s)), VMulS(VMulS(axis, kv), SCALE - c))

---------------------------------------------------------------------------
(* Camera (camera.rs).                                                     *)

\* up: Vec3::new(0.0, 1.0, 0.0)
WorldUp == <<0, SCALE, 0>>
\* movement_speed: 50.0 world units per second
MovementSpeed == 50 * LSCALE
\* rotation_speed: 0.03 radians per unit of input
RotationSpeed == 30
\* the distance bounds of zoom: clamp(50.0, 3000.0)
MinDistance == 50 * LSCALE
MaxDistance == 3000 * LSCALE
\* the bounds of phi in orbit: clamp(0.1, PI - 0.1)
MinPhi == 100
MaxPhi == PI_M - 100
\* the length of the look vector set by toggle_free_camera, rotate and
\* check_collision: 100.0 world units
LookLength == 100 * LSCALE

\* The position of an orbital camera: target + distance *
\* (sin(phi) cos(theta), cos(phi), sin(phi) sin(theta)).
SphericalPosition(target, distance, theta, phi) ==
    VAdd(target, <<MulS(MulS(distance, Sin(phi)), Cos(theta)),
                   MulS(distance, Cos(phi)),
                   MulS(MulS(distance, Sin(phi)), Sin(theta))>>)

update_position(c) ==
    IF ~c.free_camera
    THEN [c EXCEPT !.position = SphericalPosition(c.target, c.distance, c.theta, c.phi)]
    ELSE c

CameraNew(target, distance) ==
    update_position([position |-> <<0, 0, 0>>, target |-> target,
                     distance |-> distance, theta |-> 0, phi |-> HALF_PI_M,
                     free_camera |-> FALSE, velocity |-> <<0, 0, 0>>])

\* orbit without the clamp of phi
orbit_unclamped(c, delta_theta, delta_phi) ==
    IF ~c.free_camera
    THEN update_position([c EXCEPT !.theta = c.theta + delta_theta,
                                   !.phi = c.phi + delta_phi])
    ELSE c

orbit(c, delta_theta, delta_phi) ==
    IF ~c.free_camera
    THEN update_position([c EXCEPT !.theta = c.theta + delta_theta,
                                   !.phi = Clamp(c.phi + delta_phi, MinPhi, MaxPhi)])
    ELSE c

\* zoom clamping the distance from below only
zoom_no_upper_bound(c, delta_distance) ==
    IF ~c.free_camera
    THEN update_position([c EXCEPT !.distance =
                              Max(c.distance + delta_distance, MinDistance)])
    ELSE c

zoom(c, delta_distance) ==
    IF ~c.free_camera
    THEN update_position([c EXCEPT !.distance =
                              Clamp(c.distance + delta_distance, MinDistance, MaxDistance)])
    ELSE c

Forward(c) == Normalize(VSub(c.target, c.position))
Right(c) == Normalize(Cross(Forward(c), WorldUp))

\* toggle_free_camera stopping the camera on leaving free mode
toggle_free_camera_stops(c) ==
    LET d == [c EXCEPT !.free_camera = ~c.free_camera]
    IN  IF d.free_camera
        THEN [d EXCEPT !.target = VAdd(c.position, VMulS(Forward(c), LookLength))]
        ELSE [d EXCEPT !.velocity = <<0, 0, 0>>]

\* toggle_free_camera recomputing the orbital position on leaving free mode
toggle_free_camera_repositions(c) ==
    LET d == [c EXCEPT !.free_camera = ~c.free_camera]
    IN  IF d.free_camera
        THEN [d EXCEPT !.target = VAdd(c.position, VMulS(Forward(c), LookLength))]
        ELSE update_position(d)

toggle_free_camera(c) ==
    LET d == [c EXCEPT !.free_camera = ~c.free_camera]
    IN  IF d.free_camera
        THEN [d EXCEPT !.target = VAdd(c.position, VMulS(Forward(c), LookLength))]
        ELSE d

\* forward * movement_speed * delta, delta in milliseconds
Thrust(dir, delta) == VMulS(VMulS(dir, MovementSpeed), delta)

move_forward(c, delta) ==
    IF c.free_camera
    THEN [c EXCEPT !.velocity = VAdd(c.velocity, Thrust(Forward(c), delta))] ELSE c

move_backward(c, delta) ==
    IF c.free_camera
    THEN [c EXCEPT !.velocity = VSub(c.velocity, Thrust(Forward(c), delta))] ELSE c

move_left(c, delta) ==
    IF c.free_camera
    THEN [c EXCEPT !.velocity = VSub(c.velocity, Thrust(Right(c), delta))] ELSE c

move_right(c, delta) ==
    IF c.free_camera
    THEN [c EXCEPT !.velocity = VAdd(c.velocity, Thrust(Right(c), delta))] ELSE c

\* move_up without the test of the mode
move_up_any_mode(c, delta) ==
    [c EXCEPT !.velocity = VAdd(c.velocity, Thrust(WorldUp, delta))]

move_up(c, delta) ==
    IF c.free_camera
    THEN [c EXCEPT !.velocity = VAdd(c.velocity, Thrust(WorldUp, delta))] ELSE c

move_down(c, delta) ==
    IF c.free_camera
    THEN [c EXCEPT !.velocity = VSub(c.velocity, Thrust(WorldUp, delta))] ELSE c

rotate(c, delta_x, delta_y) ==
    IF c.free_camera
    THEN LET forward == Forward(c)
             right == Right(c)
             new_forward_h == RotateVec3(forward, delta_x * RotationSpeed, WorldUp)
             new_forward == RotateVec3(new_forward_h, delta_y * RotationSpeed, right)
         IN  [c EXCEPT !.target = VAdd(c.position, VMulS(new_forward, LookLength))]
    ELSE c

\* velocity *= 0.9 rounded toward zero
DampTruncating(v) ==
    IF IsNaN(v) THEN NaNVec
    ELSE <<(IF v[1] >= 0 THEN (v[1] * 9) \div 10 ELSE -((-v[1] * 9) \div 10)),
           (IF v[2] >= 0 THEN (v[2] * 9) \div 10 ELSE -((-v[2] * 9) \div 10)),
           (IF v[3] >= 0 THEN (v[3] * 9) \div 10 ELSE -((-v[3] * 9) \div 10))>>

\* velocity *= 0.9
Damp(v) ==
    IF IsNaN(v) THEN NaNVec
    ELSE <<RDiv(v[1] * 9, 10), RDiv(v[2] * 9, 10), RDiv(v[3] * 9, 10)>>

\* update damping the velocity in either mode
update_any_mode(c, delta_time) ==
    IF c.free_camera
    THEN [c EXCEPT !.position = VAdd(c.position, VMulS(c.velocity, delta_time)),
                   !.target = VAdd(c.target, VMulS(c.velocity, delta_time)),
                   !.velocity = Damp(c.velocity)]
    ELSE [c EXCEPT !.velocity = Damp(c.velocity)]

update(c, delta_time) ==
    IF c.free_camera
    THEN [c EXCEPT !.position = VAdd(c.position, VMulS(c.velocity, delta_time)),
                   !.target = VAdd(c.target, VMulS(c.velocity, delta_time)),
                   !.velocity = Damp(c.velocity)]
    ELSE c

\* collision_radius = body_scales[i] * 15.0
CollisionRadius(scale) == scale * 15

\* The loop of check_collision stopping at the shorter of the two slices
RECURSIVE CollisionFromZip(_, _, _, _)
CollisionFromZip(c, body_positions, body_scales, i) ==
    IF i > Len(body_positions) \/ i > Len(body_scales) THEN [cam |-> c, ret |-> "false"]
    ELSE LET offset == VSub(c.position, body_positions[i])
             collision_radius == CollisionRadius(body_scales[i])
         IN  IF ~IsNaN(offset) /\ Length(offset) < collision_radius
             THEN LET direction == Normalize(offset)
                      pos == VAdd(body_positions[i], VMulS(direction, collision_radius))
                  IN  [cam |-> IF c.free_camera
                               THEN [c EXCEPT !.position = pos,
                                              !.target = VAdd(pos, VMulS(direction, LookLength))]
                               ELSE [c EXCEPT !.position = pos],
                       ret |-> "true"]
             ELSE CollisionFromZip(c, body_positions, body_scales, i + 1)

\* The loop of check_collision from index i on: the camera it leaves and what
\* the call returns ("true", "false", or "panic" when body_scales[i] is out of
\* bounds).
RECURSIVE CollisionFrom(_, _, _, _)
CollisionFrom(c, body_positions, body_scales, i) ==
    IF i > Len(body_positions) THEN [cam |-> c, ret |-> "false"]
    ELSE IF i > Len(body_scales) THEN [cam |-> c, ret |-> "panic"]
    ELSE LET body_pos == body_positions[i]
             offset == VSub(c.position, body_pos)
             collision_radius == CollisionRadius(body_scales[i])
         IN  \* a NaN distance_to_body compares false with the radius
             IF ~IsNaN(offset) /\ Length(offset) < collision_radius
             THEN LET direction == Normalize(offset)
                      pos == VAdd(body_pos, VMulS(direction, collision_radius))
                  IN  [cam |-> IF c.free_camera
                               THEN [c EXCEPT !.position = pos,
                                              !.target = VAdd(pos, VMulS(direction, LookLength))]
                               ELSE [c EXCEPT !.position = pos],
                       ret |-> "true"]
             ELSE CollisionFrom(c, body_positions, body_scales, i + 1)

check_collision(c, body_positions, body_scales) ==
    CollisionFrom(c, body_positions, body_scales, 1)

\* warp_to_body leaving the velocity of a free camera as it was
warp_to_body_keeps_velocity(c, body_position, safe_distance) ==
    IF c.free_camera
    THEN [c EXCEPT !.position = VAdd(body_position,
                                     <<safe_distance, safe_distance \div 2, 0>>),
                   !.target = body_position]
    ELSE update_position([c EXCEPT !.target = body_position,
                                   !.distance = safe_distance])

warp_to_body(c, body_position, safe_distance) ==
    IF c.free_camera
    THEN [c EXCEPT !.position = VAdd(body_position,
                                     <<safe_distance, safe_distance \div 2, 0>>),
                   !.target = body_position,
                   !.velocity = <<0, 0, 0>>]
    ELSE update_position([c EXCEPT !.target = body_position,
                                   !.distance = safe_distance])

\* The matrix whose entries are NaN: look_at_matrix of an eye equal to its
\* target, or looking along up.
NaNMat == <<>>

\* -v
VNeg(v) == IF IsNaN(v) THEN NaNVec ELSE <<-v[1], -v[2], -v[3]>>

\* look_at_matrix with the translation column not negated
look_at_matrix_unnegated(eye, at, up) ==
    LET forward == Normalize(VSub(at, eye))
        xaxis == Normalize(Cross(forward, up))
        yaxis == Cross(xaxis, forward)
        zaxis == VNeg(forward)
    IN  IF IsNaN(xaxis) \/ IsNaN(yaxis) \/ IsNaN(zaxis) \/ IsNaN(eye) THEN NaNMat
        ELSE << <<xaxis[1], xaxis[2], xaxis[3], Dot(xaxis, eye)>>,
                <<yaxis[1], yaxis[2], yaxis[3], Dot(yaxis, eye)>>,
                <<zaxis[1], zaxis[2], zaxis[3], Dot(zaxis, eye)>>,
                <<0, 0, 0, SCALE>> >>

\* The view matrix, as its four rows.  The rotation part and the last row are
\* in units of 1/SCALE; the translation column, which multiplies the w = 1 of
\* a point, is in units of 1/(SCALE * LSCALE), the unit of axis . eye.
look_at_matrix(eye, at, up) ==
    LET forward == Normalize(VSub(at, eye))
        xaxis == Normalize(Cross(forward, up))
        yaxis == Cross(xaxis, forward)
        zaxis == VNeg(forward)
    IN  IF IsNaN(xaxis) \/ IsNaN(yaxis) \/ IsNaN(zaxis) \/ IsNaN(eye) THEN NaNMat
        ELSE << <<xaxis[1], xaxis[2], xaxis[3], -Dot(xaxis, eye)>>,
                <<yaxis[1], yaxis[2], yaxis[3], -Dot(yaxis, eye)>>,
                <<zaxis[1], zaxis[2], zaxis[3], -Dot(zaxis, eye)>>,
                <<0, 0, 0, SCALE>> >>

look_at(c) == look_at_matrix(c.position, c.target, WorldUp)

\* view_matrix * [p, 1] for a world point p (1/LSCALE): x, y and z in units
\* of 1/(SCALE * LSCALE), w in units of 1/SCALE.
ViewOfPoint(m, p) ==
    <<m[1][1] * p[1] + m[1][2] * p[2] + m[1][3] * p[3] + m[1][4],
      m[2][1] * p[1] + m[2][2] * p[2] + m[2][3] * p[3] + m[2][4],
      m[3][1] * p[1] + m[3][2] * p[2] + m[3][3] * p[3] + m[3][4],
      m[4][4]>>

---------------------------------------------------------------------------
(* The camera's callers: the inputs the operations are driven with.        *)

\* solar_system_center, the target of Camera::new and the sun's position
SunPosition == <<400 * LSCALE, 300 * LSCALE, 0>>
\* the position of the planet of orbital radius 280 at orbital angle 0
EarthPosition == <<680 * LSCALE, 300 * LSCALE, 0>>
\* the distance given to Camera::new
InitialDistance == 600 * LSCALE

\* orbit: the key steps of +-PI/50, and adversarial deltas of +-1000 radians
OrbitDeltas == {<<63, 0>>, <<-63, 0>>, <<0, -63>>, <<0, 63>>,
                <<0, 1000 * SCALE>>, <<0, -1000 * SCALE>>}
\* zoom: the key steps of +-20, and adversarial deltas
ZoomDeltas == {-20 * LSCALE, 20 * LSCALE, -5000 * LSCALE, 5000 * LSCALE}
\* move_* and update: the frame time 0.016 s
FrameTimes == {16}
\* rotate: the arrow-key steps
RotateDeltas == {<<-2, 0>>, <<2, 0>>, <<0, -2>>, <<0, 2>>}
\* check_collision: body positions and scales (scales in 1/LSCALE); the last
\* has fewer scales than positions
BodyConfigs ==
    { [positions |-> <<SunPosition>>, scales |-> <<60 * LSCALE>>],
      [positions |-> <<SunPosition, EarthPosition>>, scales |-> <<4 * LSCALE, 7 * LSCALE>>],
      [positions |-> <<SunPosition, EarthPosition>>, scales |-> <<4 * LSCALE>>] }
\* warp_to_body: warp targets of main, and safe distances outside [50, 3000]
WarpInputs == { <<SunPosition, 150 * LSCALE>>, <<EarthPosition, 70 * LSCALE>>,
                <<EarthPosition, 10 * LSCALE>>, <<SunPosition, 5000 * LSCALE>> }

---------------------------------------------------------------------------
(* The camera as a state machine: one action per public method.            *)

CamInit ==
    /\ camera = CameraNew(SunPosition, InitialDistance)
    /\ pc = "running"
    /\ lastOp = "new"
    /\ lastRet = "none"
    /\ nops = 0

\* One call of a camera method: its effect on the camera and what it returned.
CamStep(c, op, ret) ==
    /\ pc = "running"
    /\ nops < MaxCamOps
    /\ camera' = c
    /\ lastOp' = op
    /\ lastRet' = ret
    /\ nops' = nops + 1
    /\ pc' = IF ret = "panic" THEN "panicked" ELSE "running"
    /\ UNCHANGED <<rasVars, fbVars, vsVars, loopVars>>

Orbit == \E d \in OrbitDeltas : CamStep(orbit(camera, d[1], d[2]), "orbit", "none")
Zoom == \E d \in ZoomDeltas : CamStep(zoom(camera, d), "zoom", "none")
ToggleFreeCamera == CamStep(toggle_free_camera(camera), "toggle_free_camera", "none")
MoveForward == \E dt \in FrameTimes : CamStep(move_forward(camera, dt), "move_forward", "none")
MoveBackward == \E dt \in FrameTimes : CamStep(move_backward(camera, dt), "move_backward", "none")
MoveLeft == \E dt \in FrameTimes : CamStep(move_left(camera, dt), "move_left", "none")
MoveRight == \E dt \in FrameTimes : CamStep(move_right(camera, dt), "move_right", "none")
MoveUp == \E dt \in FrameTimes : CamStep(move_up(camera, dt), "move_up", "none")
MoveDown == \E dt \in FrameTimes : CamStep(move_down(camera, dt), "move_down", "none")
Rotate == \E d \in RotateDeltas : CamStep(rotate(camera, d[1], d[2]), "rotate", "none")
Update == \E dt \in FrameTimes : CamStep(update(camera, dt), "update", "none")
CheckCollision ==
    \E b \in BodyConfigs :
        LET r == check_collision(camera, b.positions, b.scales)
        IN  CamStep(r.cam, "check_collision", r.ret)
WarpToBody == \E w \in WarpInputs : CamStep(warp_to_body(camera, w[1], w[2]), "warp_to_body", "none")

CamNext ==
    \/ Orbit
    \/ Zoom
    \/ ToggleFreeCamera
    \/ MoveForward
    \/ MoveBackward
    \/ MoveLeft
    \/ MoveRight
    \/ MoveUp
    \/ MoveDown
    \/ Rotate
    \/ Update
    \/ CheckCollision
    \/ WarpToBody


---------------------------------------------------------------------------
(* The rasterizer (triangle.rs) and the fragment shader (shaders.rs).      *)
(*                                                                         *)
(* A vertex is a record: position (the Vec3 the lighting uses, in          *)
(* 1/LSCALE), color (<<r, g, b>>, each 0..255) and transformed_position    *)
(* (<<x, y, z>>: screen x and y in 1/SUB of a pixel, depth z in 1/SCALE).  *)
(* A fragment is a record: position (<<x, y>>, whole pixels), color, depth *)
(* and intensity (1/SCALE).                                                *)

\* screen coordinates are kept in units of 1/SUB of a pixel
SUB == 2
\* max_triangle_size
MaxTriangleSize == 300
\* the screen window of calculate_bounding_box: max(-1000).min(2000)
MinScreen == -1000
MaxScreen == 2000

\* f32::floor and f32::ceil of a coordinate given in 1/SUB of a pixel
FloorPx(v) == v \div SUB
CeilPx(v) == -((-v) \div SUB)

\* calculate_bounding_box without the clamp to [-1000, 2000]
calculate_bounding_box_unclamped(v1, v2, v3) ==
    [min_x |-> FloorPx(Min(Min(v1[1], v2[1]), v3[1])),
     min_y |-> FloorPx(Min(Min(v1[2], v2[2]), v3[2])),
     max_x |-> CeilPx(Max(Max(v1[1], v2[1]), v3[1])),
     max_y |-> CeilPx(Max(Max(v1[2], v2[2]), v3[2]))]

calculate_bounding_box(v1, v2, v3) ==
    [min_x |-> Min(Max(FloorPx(Min(Min(v1[1], v2[1]), v3[1])), MinScreen), MaxScreen),
     min_y |-> Min(Max(FloorPx(Min(Min(v1[2], v2[2]), v3[2])), MinScreen), MaxScreen),
     max_x |-> Min(Max(CeilPx(Max(Max(v1[1], v2[1]), v3[1])), MinScreen), MaxScreen),
     max_y |-> Min(Max(CeilPx(Max(Max(v1[2], v2[2]), v3[2])), MinScreen), MaxScreen)]

edge_function(a, b, c) ==
    (c[1] - a[1]) * (b[2] - a[2]) - (c[2] - a[2]) * (b[1] - a[1])

\* The three weights of p as fractions over the common denominator area: the
\* program divides each numerator by area.
barycentric_coordinates(p, a, b, c, area) ==
    [w1 |-> edge_function(b, c, p),
     w2 |-> edge_function(c, a, p),
     w3 |-> edge_function(a, b, p),
     area |-> area]

\* InUnitInterval accepting only triangles of positive signed area
InUnitIntervalOneWinding(n, area) == area > 0 /\ 0 <= n /\ n <= area

\* InUnitInterval with the lower bound made strict: w > 0.0 && w <= 1.0
InUnitIntervalStrict(n, area) ==
    \/ area > 0 /\ 0 < n /\ n <= area
    \/ area < 0 /\ area <= n /\ n < 0

\* w >= 0.0 && w <= 1.0 for w = n / area in f32: with area = 0 the quotient is
\* an infinity or NaN and the test fails; a quotient of -0.0 passes w >= 0.0.
InUnitInterval(n, area) ==
    \/ area > 0 /\ 0 <= n /\ n <= area
    \/ area < 0 /\ area <= n /\ n <= 0

\* The pixel centre (x + 0.5, y + 0.5) in 1/SUB of a pixel
PixelCentre(x, y) == <<SUB * x + 1, SUB * y + 1, 0>>

\* The test of triangle.rs:76-78 on the pixel (x, y)
PixelInside(x, y, a, b, c, area) ==
    LET w == barycentric_coordinates(PixelCentre(x, y), a, b, c, area)
    IN  /\ InUnitInterval(w.w1, area)
        /\ InUnitInterval(w.w2, area)
        /\ InUnitInterval(w.w3, area)

\* cross(edge1, edge2) of two vectors in 1/LSCALE, not rescaled: only its
\* direction is used
CrossRaw(a, b) ==
    <<a[2] * b[3] - a[3] * b[2], a[3] * b[1] - a[1] * b[3], a[1] * b[2] - a[2] * b[1]>>

\* dot(a, b).max(0.0) of two unit vectors, in 1/SCALE; f32::max of NaN and 0.0
\* is 0.0
DotMax0(a, b) ==
    IF IsNaN(a) \/ IsNaN(b) THEN 0 ELSE Max(RDiv(Dot(a, b), SCALE), 0)

\* "None" stands for the Option without uniforms
NoUniforms == [none |-> TRUE]

\* FlatIntensity without the is_light_source branch
FlatIntensityNoEmissive(v1, v2, v3, uniforms) ==
    LET edge1 == VSub(v2.position, v1.position)
        edge2 == VSub(v3.position, v1.position)
        triangle_normal == Normalize(CrossRaw(edge1, edge2))
        sum == VAdd(VAdd(v1.position, v2.position), v3.position)
        triangle_center == <<RDiv(sum[1], 3), RDiv(sum[2], 3), RDiv(sum[3], 3)>>
    IN  IF uniforms # NoUniforms
        THEN DotMax0(triangle_normal,
                     Normalize(VSub(uniforms.light_position, triangle_center)))
        ELSE SCALE \div 2

\* The lighting intensity of triangle.rs:41-63
FlatIntensity(v1, v2, v3, uniforms) ==
    LET world_a == v1.position
        world_b == v2.position
        world_c == v3.position
        edge1 == VSub(world_b, world_a)
        edge2 == VSub(world_c, world_a)
        triangle_normal == Normalize(CrossRaw(edge1, edge2))
        sum == VAdd(VAdd(world_a, world_b), world_c)
        triangle_center == <<RDiv(sum[1], 3), RDiv(sum[2], 3), RDiv(sum[3], 3)>>
    IN  IF uniforms # NoUniforms
        THEN IF uniforms.is_light_source
             THEN SCALE
             ELSE LET light_direction ==
                          Normalize(VSub(uniforms.light_position, triangle_center))
                  IN  DotMax0(triangle_normal, light_direction)
        ELSE SCALE \div 2

\* (c1 * w1 + c2 * w2 + c3 * w3) as u8: the weights are in [0, 1] and sum to 1,
\* so the sum is in [0, 255] and the cast truncates it
InterpolateChannel(c1, c2, c3, w) ==
    (c1 * w.w1 + c2 * w.w2 + c3 * w.w3) \div w.area

\* The fragment of triangle.rs:80-90 at an inside pixel
MakeFragment(x, y, v1, v2, v3, area, intensity) ==
    LET a == v1.transformed_position
        b == v2.transformed_position
        c == v3.transformed_position
        w == barycentric_coordinates(PixelCentre(x, y), a, b, c, area)
    IN  [position |-> <<x, y>>,
         color |-> <<InterpolateChannel(v1.color[1], v2.color[1], v3.color[1], w),
                     InterpolateChannel(v1.color[2], v2.color[2], v3.color[2], w),
                     InterpolateChannel(v1.color[3], v2.color[3], v3.color[3], w)>>,
         depth |-> RDiv(a[3] * w.w1 + b[3] * w.w2 + c[3] * w.w3, w.area),
         intensity |-> intensity]

\* TooLarge rejecting only a triangle too large in both dimensions
TooLargeBoth(triangle_width, triangle_height) ==
    triangle_width > MaxTriangleSize /\ triangle_height > MaxTriangleSize

\* The size guard of triangle.rs:30-37
TooLarge(triangle_width, triangle_height) ==
    triangle_width > MaxTriangleSize \/ triangle_height > MaxTriangleSize

\* triangle_with_uniforms drawing a triangle of area 0 as the pixels whose
\* centre lies on the line through its vertices
triangle_with_uniforms_line(v1, v2, v3, uniforms) ==
    LET a == v1.transformed_position
        b == v2.transformed_position
        c == v3.transformed_position
        bb == calculate_bounding_box(a, b, c)
        triangle_width == bb.max_x - bb.min_x
        triangle_height == bb.max_y - bb.min_y
    IN  IF TooLarge(triangle_width, triangle_height) THEN <<>>
        ELSE LET intensity == FlatIntensity(v1, v2, v3, uniforms)
                 triangle_area == edge_function(a, b, c)
                 cols == triangle_width + 1
                 pixels == [k \in 1..(cols * (triangle_height + 1)) |->
                               <<bb.min_x + ((k - 1) % cols), bb.min_y + ((k - 1) \div cols)>>]
                 Inside(p) == PixelInside(p[1], p[2], a, b, c, triangle_area)
                 OnLine(p) ==
                     LET w == barycentric_coordinates(PixelCentre(p[1], p[2]), a, b, c, 0)
                     IN  w.w1 = 0 /\ w.w2 = 0 /\ w.w3 = 0
                 inside == SelectSeq(pixels, Inside)
                 online == SelectSeq(pixels, OnLine)
             IN  IF triangle_area = 0
                 THEN [i \in 1..Len(online) |->
                         [position |-> online[i], color |-> v1.color, depth |-> a[3],
                          intensity |-> intensity]]
                 ELSE [i \in 1..Len(inside) |->
                         MakeFragment(inside[i][1], inside[i][2], v1, v2, v3,
                                      triangle_area, intensity)]

triangle_with_uniforms(v1, v2, v3, uniforms) ==
    LET a == v1.transformed_position
        b == v2.transformed_position
        c == v3.transformed_position
        bb == calculate_bounding_box(a, b, c)
        triangle_width == bb.max_x - bb.min_x
        triangle_height == bb.max_y - bb.min_y
    IN  IF TooLarge(triangle_width, triangle_height) THEN <<>>
        ELSE LET intensity == FlatIntensity(v1, v2, v3, uniforms)
                 triangle_area == edge_function(a, b, c)
                 cols == triangle_width + 1
                 \* the pixels of the bounding box in the order of the two
                 \* loops: y outer, x inner
                 pixels == [k \in 1..(cols * (triangle_height + 1)) |->
                               <<bb.min_x + ((k - 1) % cols), bb.min_y + ((k - 1) \div cols)>>]
                 Inside(p) == PixelInside(p[1], p[2], a, b, c, triangle_area)
                 inside == SelectSeq(pixels, Inside)
             IN  [i \in 1..Len(inside) |->
                     MakeFragment(inside[i][1], inside[i][2], v1, v2, v3,
                                  triangle_area, intensity)]

\* The intensity calculate_lighting computes (shaders.rs:117-130), a function
\* no draw calls: min(ambient + diffuse * attenuation, 1.0) with
\* attenuation = 1 / (1 + 0.0001 d + 0.000001 d^2), d in world units
LightingIntensity(vertex_pos, normal, light_pos) ==
    LET light_dir == Normalize(VSub(light_pos, vertex_pos))
        diffuse == DotMax0(normal, light_dir)
        distance == RDiv(Length(VSub(light_pos, vertex_pos)), LSCALE)
        attenuation == RDiv(1000000 * SCALE,
                            1000000 + 100 * distance + distance * distance)
        ambient == SCALE \div 10
    IN  Min(ambient + MulS(diffuse, attenuation), SCALE)

\* (channel as f32 * intensity) as u8
ShadeChannel(ch, intensity) == Min((ch * intensity) \div SCALE, 255)

fragment_shader(fragment) ==
    [fragment EXCEPT !.color = <<ShadeChannel(fragment.color[1], fragment.intensity),
                                 ShadeChannel(fragment.color[2], fragment.intensity),
                                 ShadeChannel(fragment.color[3], fragment.intensity)>>]

---------------------------------------------------------------------------
(* The framebuffer (framebuffer.rs) and the stages of render that follow   *)
(* the vertex shader (main.rs).                                            *)
(*                                                                         *)
(* The colour buffer and the depth buffer hold one cell per pixel, at      *)
(* index y * width + x.  The model keeps the cells written since the last  *)
(* clear, as a function from their indices; every other cell holds what    *)
(* clear put there: the background colour and the depth sentinel.          *)

\* framebuffer_width and framebuffer_height of main
FramebufferWidth == 800
FramebufferHeight == 600
\* the background colour main sets: 0x000011
BackgroundColor == 17
\* the depth clear stores in every cell, larger than every depth drawn
DepthSentinel == 1000000000

\* Color::to_hex: the packed 0xRRGGBB value of a colour
to_hex(color) == color[1] * 65536 + color[2] * 256 + color[3]

FramebufferNew(width, height) ==
    [width |-> width, height |-> height,
     buffer |-> <<>>, zbuffer |-> <<>>,
     background_color |-> 0, current_color |-> 16777215]

set_background_color(fb, color) == [fb EXCEPT !.background_color = color]

set_current_color(fb, color) == [fb EXCEPT !.current_color = color]

clear(fb) == [fb EXCEPT !.buffer = <<>>, !.zbuffer = <<>>]

\* The colour and the depth stored for the cell at index i
ColorAt(fb, i) == IF i \in DOMAIN fb.buffer THEN fb.buffer[i] ELSE fb.background_color
DepthAt(fb, i) == IF i \in DOMAIN fb.zbuffer THEN fb.zbuffer[i] ELSE DepthSentinel

\* f with index i set to v
Store(f, i, v) == [j \in DOMAIN f \cup {i} |-> IF j = i THEN v ELSE f[j]]

\* point with the depth test made non-strict: depth <= stored depth
point_le(fb, x, y, depth) ==
    IF x < fb.width /\ y < fb.height /\ depth <= DepthAt(fb, y * fb.width + x)
    THEN [fb EXCEPT !.buffer = Store(fb.buffer, y * fb.width + x, fb.current_color),
                    !.zbuffer = Store(fb.zbuffer, y * fb.width + x, depth)]
    ELSE fb

\* point(x, y, depth), x and y of type usize: writes the current colour and
\* the depth at (x, y) if (x, y) is within bounds and depth < the stored depth
point(fb, x, y, depth) ==
    IF x < fb.width /\ y < fb.height /\ depth < DepthAt(fb, y * fb.width + x)
    THEN [fb EXCEPT !.buffer = Store(fb.buffer, y * fb.width + x, fb.current_color),
                    !.zbuffer = Store(fb.zbuffer, y * fb.width + x, depth)]
    ELSE fb

\* An entry of pointLog: a call point(x, y, depth) with the current colour
\* color, made by the caller by; frag is the position of the fragment a call
\* by render was made for
LogEntry(x, y, depth, color, by, frag) ==
    [x |-> x, y |-> y, depth |-> depth, color |-> color, by |-> by, frag |-> frag]

\* `v as usize` of an f32 holding a whole number: the cast saturates, so a
\* negative value becomes 0
CastUsize(v) == IF v < 0 THEN 0 ELSE v

\* Primitive assembly taking every run of three vertices as a triangle
RECURSIVE AssembleStrip(_, _)
AssembleStrip(n, i) ==
    IF i + 2 > n THEN <<>>
    ELSE <<<<i, i + 1, i + 2>>>> \o AssembleStrip(n, i + 1)

\* Primitive assembly (main.rs:327-337): the triangles of the transformed
\* vertices, as triples of indices
RECURSIVE Assemble(_, _)
Assemble(n, i) ==
    IF i > n THEN <<>>
    ELSE IF i + 2 <= n THEN <<<<i, i + 1, i + 2>>>> \o Assemble(n, i + 3)
    ELSE Assemble(n, i + 3)

\* Rasterization (main.rs:339-343): the fragments of the triangles, in order
RECURSIVE RasterizeAll(_, _, _, _)
RasterizeAll(transformed_vertices, uniforms, triangles, k) ==
    IF k > Len(triangles) THEN <<>>
    ELSE LET tri == triangles[k]
         IN  triangle_with_uniforms(transformed_vertices[tri[1]],
                                    transformed_vertices[tri[2]],
                                    transformed_vertices[tri[3]], uniforms)
             \o RasterizeAll(transformed_vertices, uniforms, triangles, k + 1)

\* Fragment processing (main.rs:345-355) from fragment k on: the framebuffer
\* and the log of point calls it leaves
RECURSIVE ProcessFragments(_, _, _, _)
ProcessFragments(st, frags, uniforms, k) ==
    IF k > Len(frags) THEN st
    ELSE LET processed_fragment == fragment_shader(frags[k])
             x == CastUsize(processed_fragment.position[1])
             y == CastUsize(processed_fragment.position[2])
         IN  IF x < st.fb.width /\ y < st.fb.height
             THEN LET color == to_hex(processed_fragment.color)
                      fb1 == set_current_color(st.fb, color)
                  IN  ProcessFragments(
                          [fb |-> point(fb1, x, y, processed_fragment.depth),
                           log |-> Append(st.log,
                                          LogEntry(x, y, processed_fragment.depth, color,
                                                   "render", processed_fragment.position))],
                          frags, uniforms, k + 1)
             ELSE ProcessFragments(st, frags, uniforms, k + 1)

\* render, from the transformed vertices on (main.rs:327-355)
render(fb, log, uniforms, transformed_vertices) ==
    LET triangles == Assemble(Len(transformed_vertices), 1)
        frags == RasterizeAll(transformed_vertices, uniforms, triangles, 1)
    IN  ProcessFragments([fb |-> fb, log |-> log], frags, uniforms, 1)

---------------------------------------------------------------------------
(* The rasterizer's callers: the triangles and uniforms it is given.       *)

\* The vertex colours and depths of the triangles drawn
ColorA == <<255, 0, 0>>
ColorB == <<0, 255, 0>>
ColorC == <<60, 120, 255>>

\* Screen positions in 1/SUB of a pixel: a grid of multiples of 6.5 pixels
GridPoints == {<<13 * i, 13 * j>> : i, j \in 0..RasterGrid}
\* The triangle (0,0), (10,0), (0,10)
T10 == <<<<0, 0>>, <<SUB * 10, 0>>, <<0, SUB * 10>>>>
\* Right triangles whose bounding boxes are w by h pixels
RightTriangle(w, h) == <<<<0, 0>>, <<SUB * w, 0>>, <<0, SUB * h>>>>
SizedTriangles ==
    {RightTriangle(s[1], s[2]) :
        s \in {<<299, 299>>, <<300, 300>>, <<301, 301>>, <<301, 10>>, <<10, 301>>}}
SmallTriangles == {<<a, b, c>> : a, b, c \in GridPoints} \cup {T10}

\* The positions the lighting uses, and the uniforms of the draw: a triangle in
\* the plane z = 0 whose normal is +z, one with the opposite winding, and a
\* degenerate one; the light on the +z side of them
WorldFacing == <<<<0, 0, 0>>, <<LSCALE, 0, 0>>, <<0, LSCALE, 0>>>>
WorldAway == <<<<0, 0, 0>>, <<0, LSCALE, 0>>, <<LSCALE, 0, 0>>>>
WorldDegenerate == <<<<0, 0, 0>>, <<LSCALE, 0, 0>>, <<2 * LSCALE, 0, 0>>>>
LightAbove == <<0, 0, 400 * LSCALE>>
LightAside == <<300 * LSCALE, 0, 400 * LSCALE>>
Uniforms(light_position, is_light_source) ==
    [light_position |-> light_position, is_light_source |-> is_light_source]
Lightings ==
    { [world |-> WorldFacing, uniforms |-> Uniforms(LightAbove, FALSE)],
      [world |-> WorldFacing, uniforms |-> Uniforms(LightAside, FALSE)],
      [world |-> WorldAway, uniforms |-> Uniforms(LightAbove, FALSE)],
      [world |-> WorldAway, uniforms |-> Uniforms(LightAbove, TRUE)],
      [world |-> WorldDegenerate, uniforms |-> Uniforms(LightAside, TRUE)],
      [world |-> WorldDegenerate, uniforms |-> Uniforms(LightAbove, FALSE)],
      [world |-> WorldFacing, uniforms |-> NoUniforms] }
\* Triangles reaching beyond the clamp of the bounding box, at 2000 and at
\* -1000 pixels, and one from -5000 to 5000 pixels
ClampedTriangles ==
    { <<<<SUB * 1995, 0>>, <<SUB * 2010, 0>>, <<SUB * 1995, SUB * 8>>>>,
      <<<<-SUB * 1010, SUB * 4>>, <<-SUB * 995, 0>>, <<-SUB * 995, SUB * 8>>>>,
      <<<<SUB * 2100, SUB * 2100>>, <<SUB * 2400, SUB * 2100>>, <<SUB * 2100, SUB * 2500>>>>,
      <<<<-SUB * 5000, 0>>, <<SUB * 5000, 0>>, <<0, SUB * 5000>>>> }
\* Triangles of area 0: three points of a diagonal and of a row of pixel
\* centres, in two orders, and three equal points
DegenerateTriangles ==
    { <<<<0, 0>>, <<13, 13>>, <<26, 26>>>>,
      <<<<1, 1>>, <<9, 1>>, <<21, 1>>>>,
      <<<<21, 1>>, <<1, 1>>, <<9, 1>>>>,
      <<<<13, 13>>, <<13, 13>>, <<13, 13>>>> }
\* The draws: every small triangle under every lighting, the large ones under
\* one
Draws ==
    {<<t, l>> : t \in SmallTriangles, l \in Lightings}
    \cup {<<t, [world |-> WorldFacing, uniforms |-> Uniforms(LightAside, FALSE)]>> :
              t \in SizedTriangles \cup ClampedTriangles \cup DegenerateTriangles}

\* The three vertices of a draw: screen triangle t, lighting positions w
Vertices(t, w) ==
    <<[position |-> w[1], color |-> ColorA, transformed_position |-> <<t[1][1], t[1][2], 0>>],
      [position |-> w[2], color |-> ColorB, transformed_position |-> <<t[2][1], t[2][2], SCALE \div 2>>],
      [position |-> w[3], color |-> ColorC, transformed_position |-> <<t[3][1], t[3][2], SCALE>>]>>

RasInit ==
    /\ draw = [called |-> FALSE]
    /\ fragments = <<>>

\* One call of triangle_with_uniforms
Rasterize ==
    \E d \in Draws :
        LET t == d[1]
            l == d[2]
            v == Vertices(t, l.world)
        IN  /\ ~draw.called
            /\ draw' = [called |-> TRUE, screen |-> t, v1 |-> v[1], v2 |-> v[2], v3 |-> v[3],
                        uniforms |-> l.uniforms]
            /\ fragments' = triangle_with_uniforms(v[1], v[2], v[3], l.uniforms)
            /\ UNCHANGED <<camVars, fbVars, vsVars, loopVars>>

\* The caller takes the fragments returned (main.rs:342) before its next call
Collect ==
    /\ draw.called
    /\ draw' = [called |-> FALSE]
    /\ fragments' = <<>>
    /\ UNCHANGED <<camVars, fbVars, vsVars, loopVars>>

RasNext == Rasterize \/ Collect

---------------------------------------------------------------------------
(* The framebuffer's callers.                                              *)

\* Colours set with set_current_color and depths given to point (1/SCALE)
PointColors == {16711680, 65280}
PointDepths == {3 * SCALE, 5 * SCALE}
\* The pixels point is called at: in the corners of the buffer, and just
\* outside it
PointPixels == {<<0, 0>>, <<FramebufferWidth - 1, FramebufferHeight - 1>>,
                <<FramebufferWidth, 0>>, <<0, FramebufferHeight>>}

\* The vertex arrays render is given (after the vertex shader): triangles
\* over the corner (0, 0), one of them reaching to negative coordinates,
\* and one over the right edge; screen positions in whole pixels
RenderVertex(x, y, z, color) ==
    [position |-> <<x * LSCALE, y * LSCALE, 0>>, color |-> color,
     transformed_position |-> <<SUB * x, SUB * y, z>>]
RenderTriangle(p1, p2, p3, z, color) ==
    <<RenderVertex(p1[1], p1[2], z, color), RenderVertex(p2[1], p2[2], z, color),
      RenderVertex(p3[1], p3[2], z, color)>>
TriCorner == RenderTriangle(<<0, 0>>, <<3, 0>>, <<0, 3>>, 5 * SCALE, ColorA)
TriCornerNear == RenderTriangle(<<0, 0>>, <<2, 0>>, <<0, 2>>, 3 * SCALE, ColorB)
TriNegative == RenderTriangle(<<-2, -2>>, <<2, -2>>, <<-2, 2>>, 4 * SCALE, ColorC)
TriRightEdge ==
    RenderTriangle(<<FramebufferWidth - 2, 0>>, <<FramebufferWidth + 2, 0>>,
                   <<FramebufferWidth - 2, 3>>, 4 * SCALE, ColorB)
VertexArrays ==
    { TriCorner, TriCornerNear, TriNegative, TriRightEdge,
      TriCorner \o TriCornerNear,
      TriCornerNear \o SubSeq(TriCorner, 1, 2) }
RenderUniforms == { Uniforms(LightAbove, TRUE) }

FbInit ==
    /\ framebuffer = clear(set_background_color(
                         FramebufferNew(FramebufferWidth, FramebufferHeight),
                         BackgroundColor))
    /\ pointLog = <<>>
    /\ nfb = 0

FbStep(fb, log) ==
    /\ nfb < MaxFbOps
    /\ framebuffer' = fb
    /\ pointLog' = log
    /\ nfb' = nfb + 1
    /\ UNCHANGED <<camVars, rasVars, vsVars, loopVars>>

FbClear == FbStep(clear(framebuffer), <<>>)
FbSetCurrentColor == \E c \in PointColors : FbStep(set_current_color(framebuffer, c), pointLog)
FbPoint ==
    \E p \in PointPixels, depth \in PointDepths :
        FbStep(point(framebuffer, p[1], p[2], depth),
               Append(pointLog, LogEntry(p[1], p[2], depth, framebuffer.current_color,
                                         "point", p)))
Render ==
    \E va \in VertexArrays, u \in RenderUniforms :
        LET r == render(framebuffer, pointLog, u, va)
        IN  FbStep(r.fb, r.log)

FbNext == FbClear \/ FbSetCurrentColor \/ FbPoint \/ Render

---------------------------------------------------------------------------
(* The vertex shader (shaders.rs) and the matrices it is given (main.rs).  *)
(*                                                                         *)
(* A Mat4 is the sequence of its four rows and a Mat3 of its three.        *)
(* Matrix entries, Vec4 components, normals and times (seconds) are in     *)
(* units of 1/SCALE.  A vertex given to the shader is a record: position   *)
(* (1/LSCALE), normal (1/SCALE), tex_coords and color.                     *)

\* a * b / SCALE for factors whose product a * b is beyond the integers of
\* the checker: the larger factor is split at SCALE.
MulBig(a, b) ==
    IF Abs(a) >= Abs(b)
    THEN b * (a \div SCALE) + RDiv(b * (a % SCALE), SCALE)
    ELSE a * (b \div SCALE) + RDiv(a * (b % SCALE), SCALE)

\* n / d rounded to the nearest, for a divisor of either sign
SDiv(n, d) == IF d > 0 THEN RDiv(n, d) ELSE RDiv(-n, -d)

Identity4 ==
    << <<SCALE, 0, 0, 0>>, <<0, SCALE, 0, 0>>, <<0, 0, SCALE, 0>>, <<0, 0, 0, SCALE>> >>
Identity3 ==
    << <<SCALE, 0, 0>>, <<0, SCALE, 0>>, <<0, 0, SCALE>> >>

\* Mat4 * Vec4, Mat4 * Mat4, Mat3 * Vec3
MatVec4(m, v) ==
    [i \in 1..4 |-> MulBig(m[i][1], v[1]) + MulBig(m[i][2], v[2])
                    + MulBig(m[i][3], v[3]) + MulBig(m[i][4], v[4])]
MatMul4(a, b) ==
    [i \in 1..4 |->
        [j \in 1..4 |-> MulBig(a[i][1], b[1][j]) + MulBig(a[i][2], b[2][j])
                        + MulBig(a[i][3], b[3][j]) + MulBig(a[i][4], b[4][j])]]
MatVec3(m, v) ==
    [i \in 1..3 |-> MulBig(m[i][1], v[1]) + MulBig(m[i][2], v[2])
                    + MulBig(m[i][3], v[3])]

\* m[k] of a Mat4: the matrix is stored column by column, so the linear
\* index k addresses row k mod 4 of column k div 4 (both from 0)
LinearIndex(m, k) == m[(k % 4) + 1][(k \div 4) + 1]

\* Mat3::new(m11, m12, m13, m21, ...): the arguments are given row by row
Mat3New(m11, m12, m13, m21, m22, m23, m31, m32, m33) ==
    << <<m11, m12, m13>>, <<m21, m22, m23>>, <<m31, m32, m33>> >>

Transpose3(m) == [i \in 1..3 |-> [j \in 1..3 |-> m[j][i]]]

\* The cofactor of entry (i, j) of a Mat3, and its determinant
Minor3(m, i, j) ==
    LET r == IF i = 1 THEN <<2, 3>> ELSE IF i = 2 THEN <<1, 3>> ELSE <<1, 2>>
        c == IF j = 1 THEN <<2, 3>> ELSE IF j = 2 THEN <<1, 3>> ELSE <<1, 2>>
    IN  MulBig(m[r[1]][c[1]], m[r[2]][c[2]]) - MulBig(m[r[1]][c[2]], m[r[2]][c[1]])
Cofactor3(m, i, j) == IF (i + j) % 2 = 0 THEN Minor3(m, i, j) ELSE -Minor3(m, i, j)
Det3(m) ==
    MulBig(m[1][1], Cofactor3(m, 1, 1)) + MulBig(m[1][2], Cofactor3(m, 1, 2))
    + MulBig(m[1][3], Cofactor3(m, 1, 3))

\* try_inverse: None when the determinant is zero
NoInverse == <<>>
try_inverse(m) ==
    LET det == Det3(m)
    IN  IF det = 0 THEN NoInverse
        ELSE [i \in 1..3 |-> [j \in 1..3 |-> SDiv(Cofactor3(m, j, i) * SCALE, det)]]

\* Option::unwrap_or
unwrap_or(opt, default) == IF opt = NoInverse THEN default ELSE opt

\* create_model_matrix: translation and scale in 1/SCALE, rotation a triple
\* of angles
create_model_matrix(translation, scale, rotation) ==
    LET sin_x == Sin(rotation[1])
        cos_x == Cos(rotation[1])
        sin_y == Sin(rotation[2])
        cos_y == Cos(rotation[2])
        sin_z == Sin(rotation[3])
        cos_z == Cos(rotation[3])
        rotation_matrix_x ==
            << <<SCALE, 0, 0, 0>>, <<0, cos_x, -sin_x, 0>>,
               <<0, sin_x, cos_x, 0>>, <<0, 0, 0, SCALE>> >>
        rotation_matrix_y ==
            << <<cos_y, 0, sin_y, 0>>, <<0, SCALE, 0, 0>>,
               <<-sin_y, 0, cos_y, 0>>, <<0, 0, 0, SCALE>> >>
        rotation_matrix_z ==
            << <<cos_z, -sin_z, 0, 0>>, <<sin_z, cos_z, 0, 0>>,
               <<0, 0, SCALE, 0>>, <<0, 0, 0, SCALE>> >>
        rotation_matrix ==
            MatMul4(MatMul4(rotation_matrix_z, rotation_matrix_y), rotation_matrix_x)
        transform_matrix ==
            << <<scale, 0, 0, translation[1]>>, <<0, scale, 0, translation[2]>>,
               <<0, 0, scale, translation[3]>>, <<0, 0, 0, SCALE>> >>
    IN  MatMul4(transform_matrix, rotation_matrix)

\* create_viewport_matrix: width and height in pixels
create_viewport_matrix(width, height) ==
    << <<(width * SCALE) \div 2, 0, 0, (width * SCALE) \div 2>>,
       <<0, -((height * SCALE) \div 2), 0, (height * SCALE) \div 2>>,
       <<0, 0, SCALE, 0>>,
       <<0, 0, 0, SCALE>> >>

\* create_projection_matrix(PI / 3.0, 800 / 600, 10.0, 5000.0): the
\* perspective matrix with f = 1 / tan(PI / 6) = 1.732, f / aspect = 1.299,
\* (far + near) / (near - far) = -1.004, 2 far near / (near - far) = -20.040
ProjectionMatrix ==
    << <<1299, 0, 0, 0>>, <<0, 1732, 0, 0>>,
       <<0, 0, -1004, -20040>>, <<0, 0, -SCALE, 0>> >>

\* The view matrix of a camera with its translation column in 1/SCALE
ViewMatrix(c) ==
    LET m == look_at(c)
    IN  IF m = NaNMat THEN NaNMat
        ELSE [i \in 1..4 |-> [j \in 1..4 |->
                IF j = 4 /\ i < 4 THEN SDiv(m[i][4], LSCALE) ELSE m[i][j]]]

\* vertex.position as a Vec4 with w = 1.0
HomogeneousPosition(vertex) ==
    <<vertex.position[1] * (SCALE \div LSCALE), vertex.position[2] * (SCALE \div LSCALE),
      vertex.position[3] * (SCALE \div LSCALE), SCALE>>

\* clip_position: model, view and projection applied in turn.  Under a view
\* matrix of NaN rows view_position.xyz is NaN, and so is every component of
\* the product with the projection matrix (NaNVec).
ClipPosition(vertex, uniforms) ==
    IF uniforms.view_matrix = NaNMat THEN NaNVec
    ELSE LET world_position == MatVec4(uniforms.model_matrix, HomogeneousPosition(vertex))
             view_position == MatVec4(uniforms.view_matrix, world_position)
         IN  MatVec4(uniforms.projection_matrix, view_position)

\* the least divisor of the perspective division: 0.001
MinW == 1
\* w = clip_position.w.max(0.001); f32::max of NaN and 0.001 is 0.001
PerspectiveW(clip_position) ==
    IF IsNaN(clip_position) THEN MinW ELSE Max(clip_position[4], MinW)

\* a / w for w >= 0.001
PerspectiveDivide(a, w) ==
    IF Abs(a) < 2000 * SCALE THEN RDiv(a * SCALE, w) ELSE RDiv(a, w) * SCALE

\* .clamp(-10.0, 10.0)
ClampNdc(v) == Clamp(v, -10 * SCALE, 10 * SCALE)

\* ndc_position.  NaN / w is NaN and f32::clamp returns NaN for NaN: x, y
\* and z of the result are then NaN (NaNVec).
NdcPosition(clip_position) ==
    LET w == PerspectiveW(clip_position)
    IN  IF IsNaN(clip_position) THEN NaNVec
        ELSE <<ClampNdc(PerspectiveDivide(clip_position[1], w)),
               ClampNdc(PerspectiveDivide(clip_position[2], w)),
               ClampNdc(PerspectiveDivide(clip_position[3], w)),
               SCALE>>

\* transformed_position: x and y in 1/SUB of a pixel, z in 1/SCALE
ScreenPosition(uniforms, ndc_position) ==
    IF IsNaN(ndc_position) THEN NaNVec
    ELSE LET screen_position == MatVec4(uniforms.viewport_matrix, ndc_position)
         IN  <<SDiv(screen_position[1] * SUB, SCALE),
               SDiv(screen_position[2] * SUB, SCALE), screen_position[3]>>

\* normal_matrix
NormalMatrix(model_matrix) ==
    LET model_mat3 ==
            Mat3New(LinearIndex(model_matrix, 0), LinearIndex(model_matrix, 1),
                    LinearIndex(model_matrix, 2), LinearIndex(model_matrix, 4),
                    LinearIndex(model_matrix, 5), LinearIndex(model_matrix, 6),
                    LinearIndex(model_matrix, 8), LinearIndex(model_matrix, 9),
                    LinearIndex(model_matrix, 10))
    IN  unwrap_or(try_inverse(Transpose3(model_mat3)), Identity3)

---------------------------------------------------------------------------
(* The colour functions of the vertex shader (shaders.rs).  Each computes  *)
(* three f32 channel values (here in 1/SCALE) and converts them to u8.     *)

\* `v as u8` reducing modulo 256
AsU8Wrapping(v) ==
    IF v < 0 THEN (-((-v) \div SCALE)) % 256 ELSE (v \div SCALE) % 256

\* `v as u8` of an f32: the fraction is dropped and the cast saturates
AsU8(v) == IF v < 0 THEN 0 ELSE Min(v \div SCALE, 255)

\* Color::new of three converted channels
ColorOfChannels(raw) == <<AsU8(raw[1]), AsU8(raw[2]), AsU8(raw[3])>>

\* u8::saturating_sub
saturating_sub(a, b) == Max(a - b, 0)

\* skybox_shader: noise, the fraction of the seed; star_threshold = 0.995
SkyboxNoise(vertex_pos) ==
    LET angle == MulBig(vertex_pos[1], 12990) + MulBig(vertex_pos[2], 78233)
                 + MulBig(vertex_pos[3], 43758)
        seed == MulBig(Sin(angle), 43758545)
    IN  seed % SCALE
StarThreshold == 995
\* skybox_shader: the channel values before conversion
skybox_channels(vertex_pos, time) ==
    LET noise == SkyboxNoise(vertex_pos)
        twinkle == Max(MulS(Sin(2 * time + 10 * noise), 500) + 500, 0)
    IN  IF noise > StarThreshold
        THEN LET star_intensity ==
                     MulS(RDiv((noise - StarThreshold) * SCALE, SCALE - StarThreshold),
                          twinkle)
             IN  <<255 * star_intensity, 255 * star_intensity, 255 * star_intensity>>
        ELSE <<10 * noise, 15 * noise, 25 * noise + 30 * SCALE>>
skybox_shader(vertex_pos, time) ==
    LET c == ColorOfChannels(skybox_channels(vertex_pos, time))
    IN  IF SkyboxNoise(vertex_pos) > StarThreshold
        THEN <<c[1], c[2], saturating_sub(c[3], 50)>>
        ELSE c

star_channels(position, time) ==
    LET distance_from_center == Length(position)
        normalized_distance == Min(RDiv(distance_from_center, 10), SCALE)
        pulse == MulS(Sin(3 * time), 150) + 850
        temp_factor == MulS(SCALE - normalized_distance, pulse)
        flare_noise ==
            MulS(MulS(Sin(SDiv(position[1], 10) + time), Cos(SDiv(position[2], 10) + time))
                 + Sin(SDiv(position[3], 10)), 200)
        final_intensity == Clamp(temp_factor + flare_noise, 0, SCALE)
    IN  IF final_intensity > 800
        THEN <<255 * SCALE, 255 * SCALE, 200 * final_intensity>>
        ELSE IF final_intensity > 500
        THEN <<255 * SCALE, 200 * final_intensity, 100 * final_intensity>>
        ELSE <<255 * final_intensity, 150 * final_intensity, 50 * SCALE>>
star_shader(position, time) == ColorOfChannels(star_channels(position, time))

rocky_planet_channels(position, normal, time) ==
    LET terrain_noise ==
            MulS(Sin(SDiv(position[1], 20)), Cos(SDiv(position[2], 20)))
            + Sin(SDiv(3 * position[3], 100))
        height_factor == MulS(terrain_noise + SCALE, 500)
        crater_pattern ==
            Abs(MulS(MulS(Sin(SDiv(position[1], 5)), Cos(SDiv(3 * position[2], 20))),
                     Sin(SDiv(9 * position[3], 50))))
        crater_factor == IF crater_pattern > 700 THEN 300 ELSE SCALE
        mineral_noise ==
            MulS(Sin(SDiv(4 * position[1], 5) + SDiv(3 * position[2], 5))
                 + Cos(SDiv(2 * position[3], 5)), 500) + 500
        surface_roughness == MulS(Abs(normal[1] + normal[2] + normal[3]), 100) + 900
        base_factor == MulS(MulS(height_factor, crater_factor), surface_roughness)
    IN  IF mineral_noise > 700 /\ height_factor > 600
        THEN <<180 * base_factor, 100 * base_factor, 80 * base_factor>>
        ELSE IF height_factor > 400
        THEN <<140 * base_factor, 120 * base_factor, 100 * base_factor>>
        ELSE <<90 * base_factor, 80 * base_factor, 70 * base_factor>>
rocky_planet_shader(position, normal, time) ==
    ColorOfChannels(rocky_planet_channels(position, normal, time))

gas_giant_channels(position, normal, time) ==
    LET latitude == MulS(Sin(SDiv(position[2], 50)), 500) + 500
        band_pattern == MulS(Sin(SDiv(position[2], 10) + SDiv(time, 10)), 500) + 500
        storm_x == Sin(SDiv(3 * position[1], 100) + SDiv(time, 5))
        storm_z == Cos(SDiv(3 * position[3], 100) + SDiv(3 * time, 20))
        storm_factor == MulS(MulS(storm_x, storm_z) + SCALE, 500)
        composition_noise == MulS(Sin(SDiv(position[1] + position[3], 100)), 300) + 700
        depth_factor == Min(MulS(Length(normal), 800) + 200, SCALE)
        band_intensity ==
            MulS(MulS(latitude + MulS(band_pattern, 300), composition_noise), depth_factor)
        storm_intensity == MulS(storm_factor, 400) + 600
        final_factor == MulS(band_intensity, storm_intensity)
    IN  IF band_pattern > 600
        THEN <<220 * final_factor, 200 * final_factor, 170 * final_factor>>
        ELSE IF band_pattern > 300
        THEN <<160 * final_factor, 120 * final_factor, 80 * final_factor>>
        ELSE <<200 * final_factor, 140 * final_factor, 100 * final_factor>>
gas_giant_shader(position, normal, time) ==
    ColorOfChannels(gas_giant_channels(position, normal, time))

spaceship_channels(position, normal, time) ==
    LET base_metallic == 700
        panel_x == Min(MulS(Sin(2 * position[1]), 500) + 500, 900)
        panel_z == Min(MulS(Cos(2 * position[3]), 500) + 500, 900)
        panel_detail == MulS(panel_x + panel_z, 300) + 700
        wear_pattern ==
            MulS(Sin(SDiv(3 * (position[1] + position[2] + position[3]), 2)), 100) + 900
        light_pulse == MulS(Sin(2 * time), 100) + 900
        engine_glow == IF position[3] < -500 THEN light_pulse ELSE SCALE
        final_intensity ==
            MulS(MulS(MulS(base_metallic, panel_detail), wear_pattern), engine_glow)
        normal_factor == Min(MulS(Length(normal), 800) + 200, SCALE)
        total_factor == MulS(final_intensity, normal_factor)
    IN  <<180 * total_factor, 190 * total_factor, 210 * total_factor>>
spaceship_shader(position, normal, time) ==
    ColorOfChannels(spaceship_channels(position, normal, time))

orbit_channels(position, time) ==
    LET orbit_intensity == 300
        pulse == MulS(Sin(SDiv(3 * time, 2)), 200) + 800
        distance_fade == Min(RDiv(Length(position), 100), SCALE)
        final_intensity == MulS(MulS(orbit_intensity, pulse), distance_fade)
    IN  <<100 * final_intensity, 200 * final_intensity, 255 * final_intensity>>
orbit_shader(position, time) == ColorOfChannels(orbit_channels(position, time))

ShaderTypes == {"Skybox", "Star", "RockyPlanet", "GasGiant", "Spaceship", "Orbit"}

\* The channel values of the colour function shader_type selects
ShaderChannels(shader_type, position, transformed_normal, time) ==
    CASE shader_type = "Skybox" -> skybox_channels(position, time)
      [] shader_type = "Star" -> star_channels(position, time)
      [] shader_type = "RockyPlanet" ->
             rocky_planet_channels(position, transformed_normal, time)
      [] shader_type = "GasGiant" ->
             gas_giant_channels(position, transformed_normal, time)
      [] shader_type = "Spaceship" ->
             spaceship_channels(position, transformed_normal, time)
      [] shader_type = "Orbit" -> orbit_channels(position, time)

\* final_color: the match on uniforms.shader_type
FinalColor(shader_type, position, transformed_normal, time) ==
    CASE shader_type = "Skybox" -> skybox_shader(position, time)
      [] shader_type = "Star" -> star_shader(position, time)
      [] shader_type = "RockyPlanet" ->
             rocky_planet_shader(position, transformed_normal, time)
      [] shader_type = "GasGiant" ->
             gas_giant_shader(position, transformed_normal, time)
      [] shader_type = "Spaceship" ->
             spaceship_shader(position, transformed_normal, time)
      [] shader_type = "Orbit" -> orbit_shader(position, time)

\* vertex.position as the Vec3 the colour functions are given (1/SCALE)
ObjectPosition(vertex) ==
    <<vertex.position[1] * (SCALE \div LSCALE), vertex.position[2] * (SCALE \div LSCALE),
      vertex.position[3] * (SCALE \div LSCALE)>>

vertex_shader(vertex, uniforms) ==
    LET clip_position == ClipPosition(vertex, uniforms)
        ndc_position == NdcPosition(clip_position)
        transformed_position == ScreenPosition(uniforms, ndc_position)
        normal_matrix == NormalMatrix(uniforms.model_matrix)
        transformed_normal == MatVec3(normal_matrix, vertex.normal)
        final_color == FinalColor(uniforms.shader_type, ObjectPosition(vertex),
                                  transformed_normal, uniforms.time)
    IN  [position |-> vertex.position,
         normal |-> vertex.normal,
         tex_coords |-> vertex.tex_coords,
         color |-> final_color,
         transformed_position |-> transformed_position,
         transformed_normal |-> transformed_normal]

---------------------------------------------------------------------------
(* The vertex shader's callers: the vertices and uniforms it is given, and *)
(* the first stages of render.                                             *)

\* The longest vertex array taken through render's first stages.
MaxVertices == 7

\* The Uniforms of a draw
DrawUniforms(model_matrix, view_matrix, projection_matrix, shader_type, time,
             is_light_source) ==
    [model_matrix |-> model_matrix,
     view_matrix |-> view_matrix,
     projection_matrix |-> projection_matrix,
     viewport_matrix |-> create_viewport_matrix(FramebufferWidth, FramebufferHeight),
     light_position |-> SunPosition,
     is_light_source |-> is_light_source,
     shader_type |-> shader_type,
     time |-> time]

\* A vertex of a mesh
MeshVertex(position, normal) ==
    [position |-> position, normal |-> normal, tex_coords |-> <<0, 0>>,
     color |-> <<0, 0, 0>>]

\* Object-space positions (1/LSCALE) and normals (1/SCALE) of the vertices
\* shaded: unit normals, the zero normal, and a long one
ShadedPositions == {<<0, 0, 0>>, <<LSCALE, 0, 0>>, <<0, 50, -2 * LSCALE>>}
ShadedNormals == {<<0, SCALE, 0>>, <<SCALE, 0, 0>>, <<0, 0, 0>>, <<30 * SCALE, 0, 0>>}
ShadedVertices == {MeshVertex(p, n) : p \in ShadedPositions, n \in ShadedNormals}

\* Model matrices: the identity, quarter turns about y and about z (the
\* second scaled by 2), a planet of scale 4 turned by half a radian at the
\* centre of the system, a body behind the initial camera, and scale 0
ModelMatrices ==
    { create_model_matrix(<<0, 0, 0>>, SCALE, <<0, 0, 0>>),
      create_model_matrix(<<0, 0, 0>>, SCALE, <<0, HALF_PI_M, 0>>),
      create_model_matrix(<<0, 0, 0>>, 2 * SCALE, <<0, 0, HALF_PI_M>>),
      create_model_matrix(<<400 * SCALE, 300 * SCALE, 0>>, 4 * SCALE, <<0, 500, 0>>),
      create_model_matrix(<<1500 * SCALE, 300 * SCALE, 0>>, SCALE, <<0, 0, 0>>),
      create_model_matrix(<<0, 0, 0>>, 0, <<0, 0, 0>>) }
\* The camera after Camera::new, zoom(-5000.0), toggle_free_camera twice,
\* zoom(-20.0) and a check_collision against the sun of scale 60
CollidedCamera ==
    LET zoomed == zoom(CameraNew(SunPosition, InitialDistance), -5000 * LSCALE)
        toggled == toggle_free_camera(toggle_free_camera(zoomed))
    IN  check_collision(zoom(toggled, -20 * LSCALE), <<SunPosition>>, <<60 * LSCALE>>).cam
\* View matrices: the identity, that of the camera main constructs, and
\* that of the camera above
ViewMatrices ==
    {Identity4, ViewMatrix(CameraNew(SunPosition, InitialDistance)),
     ViewMatrix(CollidedCamera)}
ProjectionMatrices == {Identity4, ProjectionMatrix}
\* uniforms.time: the start, and one frame (0.016 s) later
ShadedTimes == {0, 16}
ShadedUniforms ==
    {DrawUniforms(m, v, p, t, time, FALSE) :
        m \in ModelMatrices, v \in ViewMatrices, p \in ProjectionMatrices,
        t \in ShaderTypes, time \in ShadedTimes}

\* The vertex arrays rendered: the first n vertices of a mesh of small
\* triangles side by side, in either winding
FrontMeshVertex(k, winding) ==
    LET base == 3 * ((k - 1) \div 3)
        corner == (k - 1) % 3
    IN  MeshVertex(IF corner = 0 THEN <<base, 0, 0>>
                   ELSE IF (corner = 1) = (winding = 1) THEN <<base + 2, 0, 0>>
                   ELSE <<base, 2, 0>>,
                   <<0, 0, SCALE>>)
FrontVertexArrays ==
    {[k \in 1..n |-> FrontMeshVertex(k, winding)] : n \in 0..MaxVertices, winding \in 1..2}
FrontUniforms ==
    {DrawUniforms(Identity4, Identity4, Identity4, t[1], 0, t[2]) :
        t \in {<<"Star", TRUE>>, <<"RockyPlanet", FALSE>>}}

\* The vertex shader stage of render (main.rs:320-325)
VertexStage(vertex_array, uniforms) ==
    [i \in 1..Len(vertex_array) |-> vertex_shader(vertex_array[i], uniforms)]

VsInit ==
    /\ shaded = [called |-> FALSE]
    /\ front = [called |-> FALSE]

\* One call of vertex_shader
VertexShader ==
    \E vertex \in ShadedVertices, uniforms \in ShadedUniforms :
        LET clip_position == ClipPosition(vertex, uniforms)
        IN  /\ ~shaded.called /\ ~front.called
            /\ shaded' = [called |-> TRUE, vertex |-> vertex, uniforms |-> uniforms,
                          clip_position |-> clip_position,
                          w |-> PerspectiveW(clip_position),
                          ndc_position |-> NdcPosition(clip_position),
                          out |-> vertex_shader(vertex, uniforms)]
            /\ UNCHANGED <<camVars, rasVars, fbVars, front, loopVars>>

\* render up to the fragments it hands to the fragment stage (main.rs:320-343)
RenderFront ==
    \E vertex_array \in FrontVertexArrays, uniforms \in FrontUniforms :
        LET transformed_vertices == VertexStage(vertex_array, uniforms)
            triangles == Assemble(Len(transformed_vertices), 1)
        IN  /\ ~shaded.called /\ ~front.called
            /\ front' = [called |-> TRUE, vertex_array |-> vertex_array,
                         uniforms |-> uniforms,
                         transformed_vertices |-> transformed_vertices,
                         triangles |-> triangles,
                         fragments |-> RasterizeAll(transformed_vertices, uniforms,
                                                    triangles, 1)]
            /\ UNCHANGED <<camVars, rasVars, fbVars, shaded, loopVars>>

VsNext == VertexShader \/ RenderFront

---------------------------------------------------------------------------
(* The main loop (main.rs:513-644) and its input handler (main.rs:647-755). *)
(* Times are in 1/SCALE of a second.  The bodies are the sun and the first  *)
(* planet; meshes and pixels are left to the rasterizer and framebuffer     *)
(* specifications, a draw being recorded with the uniforms it is given.     *)

\* delta_time of a frame: 0.016
FrameTime == 16
\* warp_cooldown = 1.0
WarpCooldown == SCALE
\* the orbit keys' step PI / 50.0
OrbitStep == RDiv(PI_M, 50)

\* celestial_bodies: the sun (main.rs:409-415) and the first planet
\* (main.rs:418-427); orbital_angle and rotation_y in 1/SCALE^2
InitialBodies ==
    << [position |-> SunPosition, scale |-> 60 * LSCALE, orbits |-> FALSE,
        orbital_center |-> SunPosition, orbital_radius |-> 0, orbital_speed |-> 0,
        orbital_angle |-> 0, rotation_speed |-> 100, rotation_y |-> 0],
       [position |-> <<0, 0, 0>>, scale |-> 4 * LSCALE, orbits |-> TRUE,
        orbital_center |-> SunPosition, orbital_radius |-> 150 * LSCALE,
        orbital_speed |-> 800, orbital_angle |-> 0, rotation_speed |-> 300,
        rotation_y |-> 0] >>
\* warp_targets (main.rs:500-503)
InitialWarpTargets ==
    << [position |-> SunPosition, distance |-> 150 * LSCALE],
       [position |-> <<0, 0, 0>>, distance |-> 50 * LSCALE] >>

\* CelestialBody::update
BodyUpdate(body, delta_time) ==
    LET angle == body.orbital_angle + body.orbital_speed * delta_time
        moved == [body EXCEPT !.orbital_angle = angle,
                              !.rotation_y = @ + body.rotation_speed * delta_time]
    IN  IF body.orbits
        THEN [moved EXCEPT !.position =
                 <<body.orbital_center[1]
                       + MulS(body.orbital_radius, Cos(RDiv(angle, SCALE))),
                   body.orbital_center[2],
                   body.orbital_center[3]
                       + MulS(body.orbital_radius, Sin(RDiv(angle, SCALE)))>>]
        ELSE moved

\* Spaceship::update_position: the position only
ShipPosition(c) ==
    LET forward == Forward(c)
        right == Normalize(Cross(forward, WorldUp))
        up == Normalize(Cross(right, forward))
    IN  IF IsNaN(forward) \/ IsNaN(right) \/ IsNaN(up) \/ IsNaN(c.position) THEN NaNVec
        ELSE VAdd(VAdd(VAdd(c.position, VMulS(forward, 15 * LSCALE)),
                       VMulS(up, -3 * LSCALE)),
                  VMulS(right, 2 * LSCALE))

\* Key0 .. Key5
WarpKeys == <<"Key0", "Key1", "Key2", "Key3", "Key4", "Key5">>

\* One performed warp that leaves last_warp_time as it was
WarpNoStamp(g, k, keys) ==
    IF WarpKeys[k + 1] \in keys /\ Len(g.warp_targets) > k
    THEN [g EXCEPT !.camera = warp_to_body(g.camera, g.warp_targets[k + 1].position,
                                           g.warp_targets[k + 1].distance),
                   !.current_warp_animation = SCALE,
                   !.warps = @ + 1]
    ELSE g

\* One key of the warp system (main.rs:723-753): key k warps to
\* warp_targets[k], here at index k + 1
Warp(g, k, keys) ==
    IF WarpKeys[k + 1] \in keys /\ Len(g.warp_targets) > k
    THEN [g EXCEPT !.camera = warp_to_body(g.camera, g.warp_targets[k + 1].position,
                                           g.warp_targets[k + 1].distance),
                   !.last_warp_time = g.time,
                   !.current_warp_animation = SCALE,
                   !.warps = @ + 1]
    ELSE g

\* The keys of free flight in the order the handler asks for them
\* (main.rs:664-695), and what each does to the camera
FlightKeyOrder ==
    <<"W", "S", "A", "D", "Space", "LeftShift", "Left", "Right", "Up", "Down">>
FlightKey(c, key) ==
    CASE key = "W" -> move_forward(c, FrameTime)
      [] key = "S" -> move_backward(c, FrameTime)
      [] key = "A" -> move_left(c, FrameTime)
      [] key = "D" -> move_right(c, FrameTime)
      [] key = "Space" -> move_up(c, FrameTime)
      [] key = "LeftShift" -> move_down(c, FrameTime)
      [] key = "Left" -> rotate(c, -2, 0)
      [] key = "Right" -> rotate(c, 2, 0)
      [] key = "Up" -> rotate(c, 0, -2)
      [] key = "Down" -> rotate(c, 0, 2)
RECURSIVE FlightKeys(_, _, _)
FlightKeys(c, keys, i) ==
    IF i > Len(FlightKeyOrder) THEN c
    ELSE FlightKeys(IF FlightKeyOrder[i] \in keys THEN FlightKey(c, FlightKeyOrder[i])
                    ELSE c,
                    keys, i + 1)

\* The keys of the orbital camera (main.rs:698-716)
OrbitKeyOrder == <<"Right", "Left", "Up", "Down", "W", "S">>
OrbitKey(c, key) ==
    CASE key = "Right" -> orbit(c, OrbitStep, 0)
      [] key = "Left" -> orbit(c, -OrbitStep, 0)
      [] key = "Up" -> orbit(c, 0, -OrbitStep)
      [] key = "Down" -> orbit(c, 0, OrbitStep)
      [] key = "W" -> zoom(c, -20 * LSCALE)
      [] key = "S" -> zoom(c, 20 * LSCALE)
RECURSIVE OrbitKeys(_, _, _)
OrbitKeys(c, keys, i) ==
    IF i > Len(OrbitKeyOrder) THEN c
    ELSE OrbitKeys(IF OrbitKeyOrder[i] \in keys THEN OrbitKey(c, OrbitKeyOrder[i])
                   ELSE c,
                   keys, i + 1)

\* The C key (main.rs:657-660)
ToggleKey(c, keys) == IF "C" \in keys THEN toggle_free_camera(c) ELSE c
\* The camera keys of the mode the camera is in (main.rs:662-717)
Steer(c, keys) ==
    IF c.free_camera THEN FlightKeys(c, keys, 1) ELSE OrbitKeys(c, keys, 1)
\* The warp system (main.rs:720-754): Key1 to Key5, then Key0
WarpSystem(g, keys) ==
    IF g.time - g.last_warp_time > WarpCooldown
    THEN Warp(Warp(Warp(Warp(Warp(Warp(g, 1, keys), 2, keys), 3, keys),
                        4, keys), 5, keys), 0, keys)
    ELSE g
\* warp_log keeps, for every frame with a warp_to_body call, its time and
\* the last_warp_time it began with
LogWarps(g, before) ==
    IF g.warps > 0
    THEN [g EXCEPT !.warp_log = Append(@, [time |-> before.time,
                                           last_warp_time |-> before.last_warp_time])]
    ELSE g

\* handle_enhanced_camera_input.  warps counts the warp_to_body calls of the
\* frame.
handle_enhanced_camera_input(g, keys) ==
    LogWarps(WarpSystem([g EXCEPT !.camera = Steer(ToggleKey(g.camera, keys), keys),
                                  !.warps = 0],
                        keys),
             g)

\* One iteration with the view matrix taken before the collision check
PhaseOrderViewFirst ==
    <<"input", "clear", "tick", "camera_update", "spaceship_update", "matrices",
      "collision", "skybox", "bodies_update", "orbits", "bodies", "spaceship",
      "warp_animation", "present">>

\* The statements of one iteration, in program order
PhaseOrder ==
    <<"input", "clear", "tick", "camera_update", "spaceship_update", "collision",
      "matrices", "skybox", "bodies_update", "orbits", "bodies", "spaceship",
      "warp_animation", "present">>

\* A statement that ran, and a draw with the view matrix of its uniforms
Ran(g, op) == [g EXCEPT !.events = Append(@, [op |-> op])]
Drew(g, op) ==
    [g EXCEPT !.events = Append(@, [op |-> op, view_matrix |-> g.view_matrix])]

\* The statement named phase applied to the locals g, with keys held down
DoPhase(g, phase, keys) ==
    CASE phase = "input" ->
             \* main.rs:514-526: Escape leaves the loop; the input handler;
             \* the O key
             IF "Escape" \in keys THEN [g EXCEPT !.exited = TRUE, !.events = <<>>]
             ELSE LET h == handle_enhanced_camera_input([g EXCEPT !.events = <<>>], keys)
                  IN  Ran([h EXCEPT !.show_orbits =
                                       IF "O" \in keys THEN ~@ ELSE @,
                                    !.frame = @ + 1], "input")
      [] phase = "clear" -> Ran(g, "clear")
      [] phase = "tick" -> Ran([g EXCEPT !.time = @ + FrameTime], "tick")
      [] phase = "camera_update" ->
             Ran([g EXCEPT !.camera = update(@, FrameTime)], "camera_update")
      [] phase = "spaceship_update" ->
             Ran([g EXCEPT !.ship_position = ShipPosition(g.camera)], "spaceship_update")
      [] phase = "collision" ->
             LET r == check_collision(g.camera,
                                      [i \in 1..Len(g.bodies) |-> g.bodies[i].position],
                                      [i \in 1..Len(g.bodies) |-> g.bodies[i].scale])
             IN  [g EXCEPT !.camera = r.cam,
                           !.events = Append(@, [op |-> "collision", camera |-> r.cam])]
      [] phase = "matrices" ->
             Ran([g EXCEPT !.view_matrix = look_at(g.camera)], "matrices")
      [] phase = "skybox" -> Drew(g, "skybox")
      [] phase = "bodies_update" ->
             LET bodies == [i \in 1..Len(g.bodies) |-> BodyUpdate(g.bodies[i], FrameTime)]
             IN  Ran([g EXCEPT !.bodies = bodies,
                               !.warp_targets =
                                   [i \in 1..Len(g.warp_targets) |->
                                       \* i > 0 && i <= celestial_bodies.len(),
                                       \* for the index i - 1 of the code
                                       IF i - 1 > 0 /\ i - 1 <= Len(bodies)
                                       THEN [g.warp_targets[i] EXCEPT
                                                !.position = bodies[i].position]
                                       ELSE g.warp_targets[i]]],
                     "bodies_update")
      [] phase = "orbits" -> IF g.show_orbits THEN Drew(g, "orbits") ELSE g
      [] phase = "bodies" -> Drew(g, "bodies")
      [] phase = "spaceship" -> Drew(g, "spaceship")
      [] phase = "warp_animation" ->
             Ran([g EXCEPT !.current_warp_animation = IF @ > 0 THEN @ - 20 ELSE @],
                 "warp_animation")
      [] phase = "present" -> Ran(g, "present")

\* The statements from the k-th on, to the end of the iteration
RECURSIVE RunFrom(_, _, _)
RunFrom(g, k, keys) ==
    IF k > Len(PhaseOrder) \/ g.exited THEN g
    ELSE RunFrom(DoPhase(g, PhaseOrder[k], keys), k + 1, keys)

\* The keys held while the loop is taken statement by statement, and frame
\* by frame
SteppedKeySets ==
    { {}, {"C"}, {"C", "W"}, {"W"}, {"O"}, {"Key0"}, {"Left", "S"}, {"Escape"} }
LoopKeySets == { {}, {"Key0"}, {"Key1"}, {"Key0", "Key1", "Key2"}, {"C", "Key0"} }

GameInit ==
    game = [pc |-> 1, frame |-> 0, exited |-> FALSE,
            camera |-> CameraNew(SunPosition, InitialDistance),
            time |-> 0, last_warp_time |-> 0, current_warp_animation |-> 0,
            show_orbits |-> TRUE, warp_targets |-> InitialWarpTargets,
            bodies |-> InitialBodies, ship_position |-> <<0, 0, 0>>,
            view_matrix |-> Identity4, warps |-> 0, events |-> <<>>, warp_log |-> <<>>]

\* The first statement of an iteration, with the keys found held
StepInput ==
    \E keys \in SteppedKeySets :
        /\ game.pc = 1
        /\ ~game.exited
        /\ game.frame < MaxSteppedFrames
        /\ game' = [DoPhase(game, PhaseOrder[1], keys) EXCEPT !.pc = 2]
        /\ UNCHANGED <<camVars, rasVars, fbVars, vsVars>>

\* The next statement of the iteration
StepStatement ==
    /\ game.pc > 1
    /\ ~game.exited
    /\ game' = [DoPhase(game, PhaseOrder[game.pc], {}) EXCEPT
                   !.pc = IF game.pc = Len(PhaseOrder) THEN 1 ELSE game.pc + 1]
    /\ UNCHANGED <<camVars, rasVars, fbVars, vsVars>>

StepNext == StepInput \/ StepStatement

\* One whole iteration
Frame ==
    \E keys \in LoopKeySets :
        /\ game.pc = 1
        /\ ~game.exited
        /\ game.frame < MaxFrames
        /\ game' = RunFrom(game, 1, keys)
        /\ UNCHANGED <<camVars, rasVars, fbVars, vsVars>>

LoopNext == Frame

---------------------------------------------------------------------------
(* Specifications.                                                         *)

Init == CamInit /\ RasInit /\ FbInit /\ VsInit /\ GameInit

\* The camera driven by arbitrary sequences of its methods
CameraSpec == Init /\ [][CamNext]_vars
\* The rasterizer applied to the triangles above
RasterSpec == Init /\ [][RasNext]_vars
\* The framebuffer driven by clear, set_current_color, point and render
FramebufferSpec == Init /\ [][FbNext]_vars
\* The vertex shader and the first stages of render applied to the inputs above
VertexSpec == Init /\ [][VsNext]_vars
\* The main loop taken statement by statement through its first frames
FrameSpec == Init /\ [][StepNext]_vars
\* The main loop taken frame by frame
LoopSpec == Init /\ [][LoopNext]_vars

---------------------------------------------------------------------------
(* Properties of the camera.                                               *)

\* C1: after any sequence of camera operations from Camera::new, orbit with
\* deltas of +-1000 radians included, phi lies in [0.1, PI - 0.1].
C1_PhiInRange == MinPhi <= camera.phi /\ camera.phi <= MaxPhi

\* C1 witness: orbit has just clamped phi at its upper bound.
C1_Witness == lastOp = "orbit" /\ camera.phi = MaxPhi

\* C2: in orbital mode the distance after every zoom call lies in
\* [50, 3000], whatever the delta and the distance before the call.
C2_ZoomDistanceInRange ==
    (lastOp = "zoom" /\ ~camera.free_camera) =>
        (MinDistance <= camera.distance /\ camera.distance <= MaxDistance)

\* C2 witness: a zoom in orbital mode has just clamped the distance at its
\* upper bound.
C2_Witness == lastOp = "zoom" /\ ~camera.free_camera /\ camera.distance = MaxDistance

\* C3 as claimed: in every camera state reachable from Camera::new the
\* distance lies in [50, 3000].
C3_DistanceInRange ==
    MinDistance <= camera.distance /\ camera.distance <= MaxDistance

\* C4 as claimed: in every reachable state in orbital mode the position is
\* target + distance * (sin(phi) cos(theta), cos(phi), sin(phi) sin(theta)).
C4_OrbitalPositionSpherical ==
    ~camera.free_camera =>
        camera.position =
            SphericalPosition(camera.target, camera.distance, camera.theta, camera.phi)

---------------------------------------------------------------------------
(* Properties of the rasterizer.                                           *)

\* The pixels of the clamped bounding box of the triangle drawn
BoxPixels ==
    LET bb == calculate_bounding_box(draw.v1.transformed_position,
                                     draw.v2.transformed_position,
                                     draw.v3.transformed_position)
    IN  (bb.min_x .. bb.max_x) \X (bb.min_y .. bb.max_y)
\* The width and height the size guard measures: max - min of the box
BoxWidth ==
    LET bb == calculate_bounding_box(draw.v1.transformed_position,
                                     draw.v2.transformed_position,
                                     draw.v3.transformed_position)
    IN  bb.max_x - bb.min_x
BoxHeight ==
    LET bb == calculate_bounding_box(draw.v1.transformed_position,
                                     draw.v2.transformed_position,
                                     draw.v3.transformed_position)
    IN  bb.max_y - bb.min_y
\* The pixels of the box whose centre passes the inside test
InsidePixels ==
    LET a == draw.v1.transformed_position
        b == draw.v2.transformed_position
        c == draw.v3.transformed_position
    IN  {p \in BoxPixels : PixelInside(p[1], p[2], a, b, c, edge_function(a, b, c))}
\* The pixels the fragments returned are at
FragmentPixels == {fragments[i].position : i \in 1..Len(fragments)}

\* C7: a triangle whose bounding box is more than 300 pixels wide or high (so
\* 301 x 301) yields no fragment; any other (so 299 x 299) yields exactly one
\* fragment for every pixel of the box that passes the inside test.
C7_SizeGuard ==
    draw.called =>
        IF BoxWidth > 300 \/ BoxHeight > 300
        THEN Len(fragments) = 0
        ELSE /\ FragmentPixels = InsidePixels
             /\ Len(fragments) = Cardinality(InsidePixels)

\* C7 witness: the 301 x 301 triangle has been rasterized and was rejected.
C7_Witness ==
    /\ draw.called
    /\ draw.screen = RightTriangle(301, 301)
    /\ fragments = <<>>

\* The pixels (x, y) whose centre (x + 0.5, y + 0.5) lies in the triangle
\* (0,0), (10,0), (0,10) with the hypotenuse x + y = 10 excluded, and with it
\* included
T10HalfOpenPixels ==
    {p \in (0..10) \X (0..10) : (SUB * p[1] + 1) + (SUB * p[2] + 1) < SUB * 10}
T10ClosedPixels ==
    {p \in (0..10) \X (0..10) : (SUB * p[1] + 1) + (SUB * p[2] + 1) <= SUB * 10}

\* The three barycentric weights at every fragment returned sum to 1: their
\* numerators sum to the denominator, which is not 0
WeightsSumToOne ==
    \A i \in 1..Len(fragments) :
        LET a == draw.v1.transformed_position
            b == draw.v2.transformed_position
            c == draw.v3.transformed_position
            p == fragments[i].position
            w == barycentric_coordinates(PixelCentre(p[1], p[2]), a, b, c,
                                         edge_function(a, b, c))
        IN  w.area # 0 /\ w.w1 + w.w2 + w.w3 = w.area

\* C8 as claimed: rasterizing (0,0), (10,0), (0,10) emits exactly the pixels
\* passing the half-open interior test (a centre on the excluded edge, the
\* hypotenuse, is not emitted), the weights summing to 1 at each.
C8_HalfOpenAsClaimed ==
    (draw.called /\ draw.screen = T10) =>
        /\ FragmentPixels = T10HalfOpenPixels
        /\ WeightsSumToOne

\* C8 amended: rasterizing (0,0), (10,0), (0,10) emits exactly one fragment
\* for each of the 55 pixels whose centre passes the closed test 0 <= w <= 1
\* on all three weights, the 10 pixels whose centre lies on the hypotenuse
\* included, and the weights sum to 1 at each.
C8_ClosedTest ==
    (draw.called /\ draw.screen = T10) =>
        /\ FragmentPixels = T10ClosedPixels
        /\ Len(fragments) = 55
        /\ WeightsSumToOne

\* C8 witness: the triangle has been rasterized and a pixel whose centre lies
\* on the hypotenuse, (9, 0), is among the fragments.
C8_Witness ==
    /\ draw.called
    /\ draw.screen = T10
    /\ <<9, 0>> \in FragmentPixels

\* The centroid and face normal of the triangle drawn
DrawCentre ==
    LET sum == VAdd(VAdd(draw.v1.position, draw.v2.position), draw.v3.position)
    IN  <<RDiv(sum[1], 3), RDiv(sum[2], 3), RDiv(sum[3], 3)>>
DrawNormal ==
    Normalize(CrossRaw(VSub(draw.v2.position, draw.v1.position),
                       VSub(draw.v3.position, draw.v1.position)))
NonEmissiveDraw ==
    draw.called /\ draw.uniforms # NoUniforms /\ ~draw.uniforms.is_light_source
EmissiveDraw ==
    draw.called /\ draw.uniforms # NoUniforms /\ draw.uniforms.is_light_source

\* C9 as claimed: in a non-emissive draw every fragment's intensity is
\* clamp(0.1 + max(0, dot(faceNormal, lightDir)) * attenuation, 0, 1), so at
\* least the ambient 0.1.
C9_AmbientAndAttenuation ==
    NonEmissiveDraw =>
        \A i \in 1..Len(fragments) :
            /\ fragments[i].intensity =
                   LightingIntensity(DrawCentre, DrawNormal, draw.uniforms.light_position)
            /\ fragments[i].intensity >= SCALE \div 10

\* C10: in an emissive draw every fragment has intensity exactly 1 and the
\* fragment shader leaves its colour unchanged.
C10_EmissiveFullIntensity ==
    EmissiveDraw =>
        \A i \in 1..Len(fragments) :
            /\ fragments[i].intensity = SCALE
            /\ fragment_shader(fragments[i]).color = fragments[i].color

\* C10 witness: an emissive draw of a triangle facing away from the light
\* has produced fragments.
C10_Witness ==
    /\ EmissiveDraw
    /\ Len(fragments) > 0
    /\ <<draw.v1.position, draw.v2.position, draw.v3.position>> = WorldAway

---------------------------------------------------------------------------
(* Properties of the framebuffer and of render.                            *)

\* The index of the cell a logged call addresses, for a call within bounds
InBounds(e) == e.x < framebuffer.width /\ e.y < framebuffer.height
CellOf(e) == e.y * framebuffer.width + e.x
\* The logged calls that address cell i, by their place in the log
CallsAt(i) == {k \in 1..Len(pointLog) : InBounds(pointLog[k]) /\ CellOf(pointLog[k]) = i}
TouchedCells == {CellOf(pointLog[k]) : k \in {j \in 1..Len(pointLog) : InBounds(pointLog[j])}}
\* The least depth given for cell i since the clear (the sentinel if none is
\* below it), and the first call that gave it
LeastDepthAt(i) ==
    LET ds == {pointLog[k].depth : k \in CallsAt(i)} \cup {DepthSentinel}
    IN  CHOOSE d \in ds : \A e \in ds : d <= e
FirstLeastCallAt(i) ==
    LET ks == {k \in CallsAt(i) : pointLog[k].depth = LeastDepthAt(i)}
    IN  CHOOSE k \in ks : \A j \in ks : k <= j

\* C5: a call of point changes a cell only if its depth is strictly less
\* than the depth stored: the depth stored for a cell is the least depth
\* given for it since the last clear, and its colour is that of the first
\* call that gave this depth (the nearer of two calls wins whatever their
\* order, and the earlier of two equally near ones); cells no call
\* addressed are as clear left them.
C5_DepthTest ==
    /\ DOMAIN framebuffer.buffer \subseteq TouchedCells
    /\ DOMAIN framebuffer.zbuffer \subseteq TouchedCells
    /\ \A i \in TouchedCells :
        /\ DepthAt(framebuffer, i) = LeastDepthAt(i)
        /\ ColorAt(framebuffer, i) =
               IF LeastDepthAt(i) < DepthSentinel
               THEN pointLog[FirstLeastCallAt(i)].color
               ELSE framebuffer.background_color

\* C5 witness: a cell was written at depth 5.0 and then at depth 3.0 with
\* another colour, and holds the second call's colour and depth.
C5_Witness ==
    \E k1, k2 \in 1..Len(pointLog) :
        /\ k1 < k2
        /\ InBounds(pointLog[k1]) /\ InBounds(pointLog[k2])
        /\ CellOf(pointLog[k1]) = CellOf(pointLog[k2])
        /\ pointLog[k1].depth = 5 * SCALE
        /\ pointLog[k2].depth = 3 * SCALE
        /\ pointLog[k1].color # pointLog[k2].color
        /\ ColorAt(framebuffer, CellOf(pointLog[k2])) = pointLog[k2].color
        /\ DepthAt(framebuffer, CellOf(pointLog[k2])) = 3 * SCALE

\* C6 as claimed: render calls point only for fragments whose coordinates lie
\* inside the framebuffer; a fragment with a negative x or y is dropped.
C6_OutsideFragmentsDropped ==
    \A k \in 1..Len(pointLog) :
        pointLog[k].by = "render" =>
            /\ 0 <= pointLog[k].frag[1] /\ pointLog[k].frag[1] < framebuffer.width
            /\ 0 <= pointLog[k].frag[2] /\ pointLog[k].frag[2] < framebuffer.height


---------------------------------------------------------------------------
(* Properties of the camera's operations.                                  *)

\* Two unit vectors (1/SCALE) that agree up to the rounding of a
\* normalization, or are both NaN
SameDirection(a, b) ==
    IF IsNaN(a) \/ IsNaN(b) THEN IsNaN(a) /\ IsNaN(b)
    ELSE \A i \in 1..3 : Abs(a[i] - b[i]) <= 2

\* The operations that act in free mode only, and in orbital mode only
FreeModeOps == {"move_forward", "move_backward", "move_left", "move_right",
                "move_up", "move_down", "rotate", "update"}
OrbitalModeOps == {"orbit", "zoom"}

\* C13: whenever the view matrix is defined (position differs from target
\* and the look direction is not parallel to up), look_at applied to
\* [position, 1] is the origin of view space: x, y and z zero, w one.
C13_ViewOfPositionIsOrigin ==
    look_at(camera) # NaNMat =>
        ViewOfPoint(look_at(camera), camera.position) = <<0, 0, 0, SCALE>>

\* C13 witness: a free camera that has just been rotated, away from the
\* world origin, whose view matrix maps its position to the origin.
C13_Witness ==
    /\ lastOp = "rotate"
    /\ camera.free_camera
    /\ look_at(camera) # NaNMat
    /\ look_at(camera)[1][4] # 0
    /\ look_at(camera)[3][4] # 0
    /\ ViewOfPoint(look_at(camera), camera.position) = <<0, 0, 0, SCALE>>

\* C14: after any call of toggle_free_camera, a second call restores the
\* mode flag the camera had before the first, and position, distance, theta,
\* phi and velocity are what they were before the first.
C14_DoubleToggle ==
    [][lastOp' = "toggle_free_camera" =>
          LET twice == toggle_free_camera(camera')
          IN  /\ twice.free_camera = camera.free_camera
              /\ twice.position = camera.position
              /\ twice.distance = camera.distance
              /\ twice.theta = camera.theta
              /\ twice.phi = camera.phi
              /\ twice.velocity = camera.velocity]_vars

\* C14 witness: the camera made by Camera::new toggled twice in a row: it is
\* orbital again and where it was, but its target is no longer the one it
\* was given.
C14_Witness ==
    /\ nops = 2
    /\ lastOp = "toggle_free_camera"
    /\ ~camera.free_camera
    /\ camera.position = CameraNew(SunPosition, InitialDistance).position
    /\ camera.distance = InitialDistance
    /\ camera.target # SunPosition

\* C17: orbit and zoom change no field of a free camera; move_forward,
\* move_backward, move_left, move_right, move_up, move_down, rotate and
\* update change no field of an orbital camera.
C17_WrongModeNoOp ==
    [][(\/ lastOp' \in OrbitalModeOps /\ camera.free_camera
        \/ lastOp' \in FreeModeOps /\ ~camera.free_camera)
       => camera' = camera]_vars

\* C17 witness: orbit or zoom was called on a free camera that is moving, and
\* left it free and moving.
C17_Witness ==
    /\ lastOp \in OrbitalModeOps
    /\ camera.free_camera
    /\ camera.velocity # <<0, 0, 0>>

\* C18: toggle_free_camera on an orbital camera sets the flag and sets target
\* to position + 100 * normalize(target - position), leaving position and
\* the look direction as they were; on a free camera it clears the flag and
\* changes nothing else.
C18_TogglePreservesLook ==
    [][lastOp' = "toggle_free_camera" =>
          IF ~camera.free_camera
          THEN /\ camera'.free_camera
               /\ camera'.position = camera.position
               /\ camera'.target =
                      VAdd(camera.position,
                           VMulS(Normalize(VSub(camera.target, camera.position)),
                                 LookLength))
               /\ SameDirection(Forward(camera'), Forward(camera))
          ELSE camera' = [camera EXCEPT !.free_camera = FALSE]]_vars

\* C18 witness: a camera that left free mode by toggle_free_camera with a
\* target that is not the orbit centre it started with.
C18_Witness ==
    /\ lastOp = "toggle_free_camera"
    /\ ~camera.free_camera
    /\ camera.velocity # <<0, 0, 0>>
    /\ ~IsNaN(camera.target)

\* C19: update on a free camera adds velocity * dt to position and to target
\* (target - position is unchanged), then multiplies velocity by 0.9: no
\* component of the velocity grows in magnitude, and none that was nonzero
\* becomes zero.
C19_UpdateIntegratesAndDamps ==
    [][(lastOp' = "update" /\ camera.free_camera /\ ~IsNaN(camera.velocity)
        /\ ~IsNaN(camera.position) /\ ~IsNaN(camera.target)) =>
          \E dt \in FrameTimes :
              /\ camera'.position = VAdd(camera.position, VMulS(camera.velocity, dt))
              /\ camera'.target = VAdd(camera.target, VMulS(camera.velocity, dt))
              /\ VSub(camera'.target, camera'.position)
                     = VSub(camera.target, camera.position)
              /\ \A i \in 1..3 :
                    /\ Abs(10 * camera'.velocity[i] - 9 * camera.velocity[i]) <= 5
                    /\ Abs(camera'.velocity[i]) <= Abs(camera.velocity[i])
                    /\ camera.velocity[i] # 0 => camera'.velocity[i] # 0]_vars

\* C19 witness: a free camera after update, moved off its starting point and
\* still moving.
C19_Witness ==
    /\ lastOp = "update"
    /\ camera.free_camera
    /\ ~IsNaN(camera.velocity)
    /\ camera.velocity # <<0, 0, 0>>
    /\ ~IsNaN(camera.position)
    /\ camera.position # CameraNew(SunPosition, InitialDistance).position

\* The obstacles of b the camera c is inside of
Hits(c, b) ==
    {i \in 1..Len(b.positions) :
        /\ i <= Len(b.scales)
        /\ ~IsNaN(c.position)
        /\ Length(VSub(c.position, b.positions[i])) < CollisionRadius(b.scales[i])}
LowestHit(c, b) == CHOOSE i \in Hits(c, b) : \A j \in Hits(c, b) : i <= j

\* The error allowed in a length of about len (1/LSCALE): unit vectors are
\* rounded to 1/SCALE, so a length scaled by one is off by up to 2/SCALE of
\* itself, and the square root by a few units
LengthTolerance(len) == len \div (SCALE \div 2) + 20

\* What C20 says of a call check_collision(c, b) that returned r.ret and
\* left the camera r.cam
CollisionResolved(c, b, r) ==
    /\ (r.ret = "true") <=> (Hits(c, b) # {})
    /\ Hits(c, b) = {} => r.cam = c
    /\ Hits(c, b) # {} =>
          LET i == LowestHit(c, b)
              body_pos == b.positions[i]
              direction == Normalize(VSub(c.position, body_pos))
          IN  /\ ~IsNaN(r.cam.position)
              /\ Abs(Length(VSub(r.cam.position, body_pos))
                     - CollisionRadius(b.scales[i]))
                     <= LengthTolerance(CollisionRadius(b.scales[i]))
              /\ SameDirection(Normalize(VSub(r.cam.position, body_pos)), direction)
              /\ c.free_camera =>
                    r.cam.target = VAdd(r.cam.position, VMulS(direction, LookLength))
              /\ ~c.free_camera => r.cam.target = c.target
              /\ r.cam = [c EXCEPT !.position = r.cam.position,
                                   !.target = r.cam.target]

\* C20 as claimed: check_collision returns true iff the camera is inside some
\* obstacle's radius scale * 15; it then moves the position to that distance
\* from the lowest-index such obstacle, along the line from the obstacle
\* through the old position (and in free mode sets target 100 further along
\* it); when it returns false it changes nothing.
C20_CollisionPushesToRadius ==
    \A b \in BodyConfigs :
        LET r == check_collision(camera, b.positions, b.scales)
        IN  r.ret # "panic" => CollisionResolved(camera, b, r)

\* The offset of an orbital camera from its target, the products taken in
\* the other order: it differs from the code's by the rounding of one
\* product, at most a part in SCALE of the distance
OrbitalOffset(distance, theta, phi) ==
    <<MulS(distance, MulS(Sin(phi), Cos(theta))),
      MulS(distance, Cos(phi)),
      MulS(distance, MulS(Sin(phi), Sin(theta)))>>

\* C21: warp_to_body(p, s) on a free camera sets position = p + (s, s/2, 0),
\* target = p and velocity = 0 and leaves distance, theta, phi and the flag;
\* on an orbital camera it sets target = p and distance = s, recomputes
\* position = p + s * (sin(phi) cos(theta), cos(phi), sin(phi) sin(theta)),
\* and leaves theta, phi, velocity and the flag.
C21_WarpToBody ==
    [][lastOp' = "warp_to_body" =>
          \E w \in WarpInputs :
              LET p == w[1]
                  s == w[2]
              IN  /\ camera'.target = p
                  /\ camera'.theta = camera.theta
                  /\ camera'.phi = camera.phi
                  /\ camera'.free_camera = camera.free_camera
                  /\ IF camera.free_camera
                     THEN /\ camera'.position = <<p[1] + s, p[2] + s \div 2, p[3]>>
                          /\ camera'.velocity = <<0, 0, 0>>
                          /\ camera'.distance = camera.distance
                     ELSE /\ camera'.distance = s
                          /\ camera'.velocity = camera.velocity
                          /\ \A i \in 1..3 :
                                Abs(camera'.position[i] - p[i]
                                    - OrbitalOffset(s, camera.theta, camera.phi)[i])
                                    <= s \div SCALE + 2]_vars

\* C21 witness: a free camera warped to the planet with safe distance 70,
\* at rest beside it, its orbital distance still the one it was made with.
C21_Witness ==
    /\ lastOp = "warp_to_body"
    /\ camera.free_camera
    /\ camera.position = VAdd(EarthPosition, <<70 * LSCALE, 35 * LSCALE, 0>>)
    /\ camera.target = EarthPosition
    /\ camera.velocity = <<0, 0, 0>>
    /\ camera.distance = InitialDistance
    /\ nops >= 3

\* C25: the velocity is untouched while the camera is orbital: by
\* toggle_free_camera in either direction, and on an orbital camera by orbit,
\* zoom, update and warp_to_body; so a free camera toggled to orbital mode,
\* taken through any one of these and toggled back moves, on the next
\* update(dt), by the velocity it had before the first toggle times dt.
C25_VelocityKeptInOrbitalMode ==
    LET v == camera.velocity
        orbital == IF camera.free_camera THEN toggle_free_camera(camera) ELSE camera
        after == {orbital}
                 \cup {orbit(orbital, d[1], d[2]) : d \in OrbitDeltas}
                 \cup {zoom(orbital, d) : d \in ZoomDeltas}
                 \cup {update(orbital, dt) : dt \in FrameTimes}
                 \cup {warp_to_body(orbital, w[1], w[2]) : w \in WarpInputs}
    IN  /\ toggle_free_camera(camera).velocity = v
        /\ \A o \in after :
              /\ o.velocity = v
              /\ ~o.free_camera
              /\ LET free == toggle_free_camera(o)
                 IN  /\ free.free_camera
                     /\ free.velocity = v
                     /\ \A dt \in FrameTimes :
                           update(free, dt).position = VAdd(free.position, VMulS(v, dt))

\* C25 witness: an orbital camera that still carries the velocity of its
\* free flight after an orbital operation.
C25_Witness ==
    /\ ~camera.free_camera
    /\ lastOp \in {"orbit", "zoom", "update", "warp_to_body"}
    /\ ~IsNaN(camera.velocity)
    /\ camera.velocity # <<0, 0, 0>>
    /\ ~IsNaN(camera.position)

\* C28: with fewer scales than positions, check_collision faults at index
\* len(body_scales) unless an obstacle below that index collides; with as
\* many scales as positions it returns true or false.
C28_ShortScalesFault ==
    \A b \in BodyConfigs :
        LET r == check_collision(camera, b.positions, b.scales)
        IN  /\ Len(b.scales) = Len(b.positions) => r.ret \in {"true", "false"}
            /\ Len(b.scales) < Len(b.positions) =>
                  /\ Hits(camera, b) = {} => r.ret = "panic" /\ r.cam = camera
                  /\ Hits(camera, b) # {} => r.ret = "true"
                  /\ r.ret # "false"

\* C28 witness: check_collision has faulted, the camera outside the one
\* obstacle that had a scale.
C28_Witness ==
    /\ lastOp = "check_collision"
    /\ lastRet = "panic"
    /\ pc = "panicked"
    /\ \E b \in BodyConfigs : Len(b.scales) < Len(b.positions) /\ Hits(camera, b) = {}

---------------------------------------------------------------------------
(* Properties of the vertex shader and of render's first stages.           *)

\* The upper-left 3x3 block of a Mat4
UpperLeft3(m) ==
    << <<m[1][1], m[1][2], m[1][3]>>, <<m[2][1], m[2][2], m[2][3]>>,
       <<m[3][1], m[3][2], m[3][3]>> >>

\* The rounding allowed on a transformed normal: a part in 200 of the
\* normal's components, and 5/SCALE
NormalTolerance(normal) == (Abs(normal[1]) + Abs(normal[2]) + Abs(normal[3])) \div 200 + 5

CloseVec3(a, b, tol) == \A i \in 1..3 : Abs(a[i] - b[i]) <= tol

\* C11: the normal vertex_shader returns is N * normal with
\* N = transpose(inverse(M)), M the upper-left 3x3 block of the model matrix,
\* and the normal itself when M has no inverse.
C11_NormalByInverseTranspose ==
    shaded.called =>
        LET M == UpperLeft3(shaded.uniforms.model_matrix)
            inverse == try_inverse(M)
            normal == shaded.vertex.normal
        IN  IF inverse = NoInverse
            THEN shaded.out.transformed_normal = normal
            ELSE CloseVec3(shaded.out.transformed_normal,
                           MatVec3(Transpose3(inverse), normal),
                           NormalTolerance(normal))

\* C12: the divisor of the perspective division is max(clip.w, 0.001), so it
\* is positive, and each NDC component is within [-10, 10], whatever the
\* vertex and the uniforms.
C12_DivisorPositiveNdcClamped ==
    shaded.called =>
        LET clip == shaded.clip_position
            w == shaded.w
            ndc == shaded.ndc_position
        IN  /\ w > 0
            /\ w >= MinW
            /\ ~IsNaN(clip) => w >= clip[4] /\ (w = clip[4] \/ w = MinW)
            /\ ~IsNaN(ndc)
            /\ \A i \in 1..3 : ndc[i] >= -10 * SCALE /\ ndc[i] <= 10 * SCALE

\* The u8 nearest to a channel value from below, held within 0..255
Saturated(raw) ==
    IF raw >= 255 * SCALE THEN 255
    ELSE IF raw <= 0 THEN 0
    ELSE raw \div SCALE

AtOriginAtStart ==
    /\ shaded.called
    /\ shaded.vertex.position = <<0, 0, 0>>
    /\ shaded.uniforms.time = 0

\* C15: at position (0,0,0) and time 0 each colour function returns
\* channels within 0..255, each the channel value held to that range and
\* never reduced modulo 256.
C15_ChannelsSaturate ==
    AtOriginAtStart =>
        LET raw == ShaderChannels(shaded.uniforms.shader_type, <<0, 0, 0>>,
                                  shaded.out.transformed_normal, 0)
        IN  \A i \in 1..3 :
                /\ shaded.out.color[i] \in 0..255
                /\ shaded.out.color[i] = Saturated(raw[i])

\* C15 witness: the rocky planet's colour under a long normal, its red
\* channel beyond 255 and held there
C15_Witness ==
    /\ AtOriginAtStart
    /\ shaded.uniforms.shader_type = "RockyPlanet"
    /\ ShaderChannels("RockyPlanet", <<0, 0, 0>>, shaded.out.transformed_normal, 0)[1]
           >= 256 * SCALE
    /\ shaded.out.color[1] = 255
    /\ shaded.out.color[3] < 255

\* The triangles of the first 3 * k vertices, three by three
WholeTriangles(k) == [j \in 1..k |-> <<3 * j - 2, 3 * j - 1, 3 * j>>]

\* C16: render assembles floor(n / 3) triangles from n vertices, triangle k
\* (from 0) of vertices 3k, 3k+1 and 3k+2; the n mod 3 vertices left over
\* give no triangle and no fragment.
C16_TrianglesByThrees ==
    front.called =>
        LET n == Len(front.vertex_array)
            k == n \div 3
            whole == SubSeq(front.vertex_array, 1, 3 * k)
        IN  /\ Len(front.transformed_vertices) = n
            /\ Len(front.triangles) = k
            /\ front.triangles = WholeTriangles(k)
            /\ front.fragments =
                   RasterizeAll(VertexStage(whole, front.uniforms), front.uniforms,
                                WholeTriangles(k), 1)

\* C16 witness: seven or more vertices, one or two of them left over, two
\* triangles and their fragments
C16_Witness ==
    /\ front.called
    /\ Len(front.vertex_array) % 3 # 0
    /\ Len(front.triangles) = 2
    /\ Len(front.fragments) > 0

---------------------------------------------------------------------------
(* Further properties of the rasterizer.                                   *)

\* The signed area of the triangle drawn
DrawArea ==
    edge_function(draw.v1.transformed_position, draw.v2.transformed_position,
                  draw.v3.transformed_position)

Sign(n) == IF n > 0 THEN 1 ELSE IF n < 0 THEN -1 ELSE 0

\* The numerators of the three weights of the centre of pixel p, made
\* fractions of the absolute area
WeightsOf(p) ==
    LET a == draw.v1.transformed_position
        b == draw.v2.transformed_position
        c == draw.v3.transformed_position
        w == barycentric_coordinates(PixelCentre(p[1], p[2]), a, b, c, DrawArea)
    IN  <<Sign(DrawArea) * w.w1, Sign(DrawArea) * w.w2, Sign(DrawArea) * w.w3>>

\* The pixels of the box whose centre has its three weights in [0, 1]
ClosedPixels ==
    LET a == draw.v1.transformed_position
        b == draw.v2.transformed_position
        c == draw.v3.transformed_position
        area == edge_function(a, b, c)
        sgn == Sign(area)
        whole == sgn * area
        InClosed(n) == 0 <= sgn * n /\ sgn * n <= whole
        bb == calculate_bounding_box(a, b, c)
    IN  {p \in (bb.min_x .. bb.max_x) \X (bb.min_y .. bb.max_y) :
            LET w == barycentric_coordinates(PixelCentre(p[1], p[2]), a, b, c, area)
            IN  InClosed(w.w1) /\ InClosed(w.w2) /\ InClosed(w.w3)}

\* The pixels of the fragments of the same triangle with its second and
\* third vertex exchanged
SwappedPixels ==
    LET f == triangle_with_uniforms(draw.v1, draw.v3, draw.v2, draw.uniforms)
    IN  {f[i].position : i \in 1..Len(f)}

\* C22: a triangle within the size guard and of nonzero signed area yields a
\* fragment at a pixel of its clamped bounding box exactly when the three
\* weights of the pixel centre are in the closed interval [0, 1], centres on
\* the boundary included, and the same pixels in either vertex order.
C22_ClosedTestEitherWinding ==
    (draw.called /\ BoxWidth <= 300 /\ BoxHeight <= 300 /\ DrawArea # 0) =>
        LET emitted == FragmentPixels
        IN  /\ emitted = ClosedPixels
            /\ Len(fragments) = Cardinality(emitted)
            /\ SwappedPixels = emitted

\* C22 witness: a triangle of negative signed area with a fragment at a pixel
\* whose centre is on its boundary, and another strictly inside.
C22_Witness ==
    /\ draw.called
    /\ DrawArea < 0
    /\ \E p \in FragmentPixels : \E i \in 1..3 : WeightsOf(p)[i] = 0
    /\ \E p \in FragmentPixels : \A i \in 1..3 : WeightsOf(p)[i] > 0

\* C23: a triangle of signed area 0 (collinear or coincident screen
\* positions) yields no fragment.
C23_DegenerateEmitsNothing ==
    (draw.called /\ DrawArea = 0) => fragments = <<>>

\* C23 witness: three distinct collinear positions, a pixel centre of the box
\* on the line through them, and no fragment.
C23_Witness ==
    /\ draw.called
    /\ DrawArea = 0
    /\ draw.screen[1] # draw.screen[2]
    /\ draw.screen[2] # draw.screen[3]
    /\ draw.screen[1] # draw.screen[3]
    /\ \E p \in BoxPixels :
          LET w == barycentric_coordinates(PixelCentre(p[1], p[2]),
                                           draw.v1.transformed_position,
                                           draw.v2.transformed_position,
                                           draw.v3.transformed_position, 0)
          IN  w.w1 = 0 /\ w.w2 = 0 /\ w.w3 = 0
    /\ fragments = <<>>

\* C27: triangle_with_uniforms returns at most 301 * 301 fragments, each at
\* a pixel of the clamped bounding box, so with x and y in [-1000, 2000], and
\* none for a box wider or higher than 300 pixels.
C27_FragmentsBounded ==
    draw.called =>
        /\ Len(fragments) <= 301 * 301
        /\ Len(fragments) <= (BoxWidth + 1) * (BoxHeight + 1)
        /\ \A i \in 1..Len(fragments) :
              /\ fragments[i].position \in BoxPixels
              /\ fragments[i].position[1] >= -1000 /\ fragments[i].position[1] <= 2000
              /\ fragments[i].position[2] >= -1000 /\ fragments[i].position[2] <= 2000
        /\ (BoxWidth > 300 \/ BoxHeight > 300) => fragments = <<>>

\* C27 witness: a triangle reaching to x = 2010 whose fragments stop at the
\* clamp, x = 2000.
C27_Witness ==
    /\ draw.called
    /\ \E i \in 1..3 : draw.screen[i][1] > SUB * 2000
    /\ fragments # <<>>
    /\ \E i \in 1..Len(fragments) : fragments[i].position[1] = 2000
    /\ \A i \in 1..Len(fragments) : fragments[i].position[1] <= 2000

---------------------------------------------------------------------------
(* Properties of the main loop.                                             *)

\* C26: a frame performs a warp only if time - last_warp_time > 1.0 at its
\* input handling, and never while time <= 1.0; every performed warp leaves
\* last_warp_time at that frame's time, so that any two frames with warps
\* are more than a second apart.
C26_WarpCooldown ==
    LET log == game.warp_log
    IN  /\ \A i \in 1..Len(log) :
              /\ log[i].time - log[i].last_warp_time > WarpCooldown
              /\ log[i].time > WarpCooldown
              /\ log[i].last_warp_time = IF i = 1 THEN 0 ELSE log[i - 1].time
        /\ \A i, j \in 1..Len(log) : i < j => log[j].time - log[i].time > WarpCooldown
        /\ game.last_warp_time = IF log = <<>> THEN 0 ELSE log[Len(log)].time
        /\ game.warps > 0 =>
              /\ log # <<>>
              /\ game.last_warp_time + FrameTime = game.time
              /\ game.current_warp_animation = SCALE - 20

C26_Witness ==
    /\ Len(game.warp_log) = 2
    /\ game.warps > 0
    /\ game.warp_log[1].time = 1008
    /\ game.last_warp_time = game.warp_log[2].time

\* The steps of an iteration that write points, and the order of the steps
\* of an iteration
DrawSteps == {"skybox", "orbits", "bodies", "spaceship"}
IterationOrder ==
    <<"input", "clear", "camera_update", "collision", "matrices", "skybox",
      "bodies_update", "orbits", "bodies", "spaceship", "present">>
\* The steps among those of IterationOrder that the iteration has run so far
StepsRun ==
    LET Listed(e) == \E k \in 1..Len(IterationOrder) : IterationOrder[k] = e.op
        run == SelectSeq(game.events, Listed)
    IN  [i \in 1..Len(run) |-> run[i].op]
\* The steps the whole iteration runs: the orbit paths only when shown
StepsExpected ==
    LET Shown(op) == op # "orbits" \/ game.show_orbits
    IN  SelectSeq(IterationOrder, Shown)
\* The index of the event of a step in the iteration, 0 when it has not run
EventIndex(op) ==
    IF \E i \in 1..Len(game.events) : game.events[i].op = op
    THEN CHOOSE i \in 1..Len(game.events) : game.events[i].op = op
    ELSE 0

\* C24: an iteration runs input handling, clear, camera.update, the collision
\* check, the view-matrix computation, the skybox draw, the body updates, the
\* orbit-path draws, the body draws, the spaceship draw and the presentation
\* in this order; every draw comes after the frame's clear and before its
\* presentation, with the view matrix of the camera the collision check left.
C24_IterationOrder ==
    /\ Len(StepsRun) <= Len(StepsExpected)
    /\ StepsRun = SubSeq(StepsExpected, 1, Len(StepsRun))
    /\ game.pc = 1 /\ game.frame > 0 /\ ~game.exited => StepsRun = StepsExpected
    /\ \A i \in 1..Len(game.events) :
          game.events[i].op \in DrawSteps =>
              /\ EventIndex("clear") > 0 /\ EventIndex("clear") < i
              /\ EventIndex("present") = 0 \/ i < EventIndex("present")
              /\ EventIndex("collision") > 0 /\ EventIndex("collision") < i
              /\ game.events[i].view_matrix
                     = look_at(game.events[EventIndex("collision")].camera)

C24_Witness ==
    /\ game.frame = 2
    /\ game.pc = 1
    /\ game.camera.free_camera
    /\ StepsRun = IterationOrder
    /\ game.events[EventIndex("collision")].camera.position
           # CameraNew(SunPosition, InitialDistance).position
    /\ game.events[EventIndex("spaceship")].view_matrix = look_at(game.camera)
    /\ look_at(game.camera) # NaNMat

====
